---- MODULE Spec2Model ----
(***************************************************************************)
(* Login automation: the POST handler of app/api/start/route.ts (one run   *)
(* from request body to JSON response) and the cookie helpers of           *)
(* lib/cookie-extractor (src/unnamed/part_001).                            *)
(*                                                                         *)
(* Strings are sequences of one-character strings, so that                 *)
(* String.prototype.includes is a contiguous-subsequence test.             *)
(***************************************************************************)
EXTENDS Integers, Sequences, FiniteSets, TLC

VARIABLES
    body,             \* the parsed request body (route.ts:33-34)
    pc,               \* position of the run inside POST
    browser,          \* the `browser` variable of POST: "null" or "handle"
    attempt,          \* loop counter of the loop that is running (navigation or delivery)
    navigationSuccess,\* route.ts:106
    usernameField,    \* route.ts:200, "null" or "handle"
    passwordField,    \* route.ts:238
    submitButton,     \* route.ts:264
    contextCookies,   \* route.ts:341
    jsCookies,        \* route.ts:354
    allCookies,       \* route.ts:365
    extractionMethod, \* route.ts:366
    webhookPayload,   \* route.ts:391, "none" until built
    webhookSuccess,   \* route.ts:424
    webhookError,     \* route.ts:425
    error,            \* the Error in flight between throw and catch, "none" if none
    response,         \* the NextResponse returned, "none" while the run is going
    events,           \* calls made on the outside world, in order
    mc, mj, mPost, mPce, \* inputs and results of the merge expressions checked on their own
    pin, pout,          \* input and results of the cookie helpers checked on their own
    dRole, dVisible, dResult, \* one selector loop of field discovery checked on its own
    pRun, pSlot, pBrowsers, pContexts, \* two runs of POST in flight at once
    tPc, tSelector, tEvents, tResult, \* one call of solveTurnstileChallenge (part_002)
    copiedIndex, timers, lastCopy \* the dashboard's copied indicator and its timers (part_000:42, 71-75)

vars == <<body, pc, browser, attempt, navigationSuccess, usernameField, passwordField,
          submitButton, contextCookies, jsCookies, allCookies, extractionMethod,
          webhookPayload, webhookSuccess, webhookError, error, response, events,
          mc, mj, mPost, mPce, pin, pout, dRole, dVisible, dResult,
          pRun, pSlot, pBrowsers, pContexts, tPc, tSelector, tEvents, tResult,
          copiedIndex, timers, lastCopy>>

runVars == <<body, pc, browser, attempt, navigationSuccess, usernameField, passwordField,
             submitButton, contextCookies, jsCookies, allCookies, extractionMethod,
             webhookPayload, webhookSuccess, webhookError, error, response, events>>

mergeVars == <<mc, mj, mPost, mPce>>

helperVars == <<pin, pout>>

discoveryVars == <<dRole, dVisible, dResult>>

pairVars == <<pRun, pSlot, pBrowsers, pContexts>>

turnstileVars == <<tPc, tSelector, tEvents, tResult>>

dashboardVars == <<copiedIndex, timers, lastCopy>>

(***************************************************************************)
(* Bounds and program constants                                            *)
(***************************************************************************)
\* largest number of cookies a strategy returns in the model
MaxCookies == 5

\* longest cookie sequence handed to the cookie helpers on their own
MaxJar == 3

\* for (let attempt = 1; attempt <= 3; attempt++) of the navigation loop
NavMaxAttempts == 3

\* for (let attempt = 1; attempt <= 3; attempt++) of the delivery loop
WebhookMaxAttempts == 3

(***************************************************************************)
(* Strings                                                                 *)
(***************************************************************************)
\* String.prototype.includes
Includes(s, t) ==
    \E i \in 0..(Len(s) - Len(t)) : SubSeq(s, i + 1, i + Len(t)) = t

MarkerWebhook == <<"/", "w", "e", "b", "h", "o", "o", "k", "/">>

MarkerWebhookTest == <<"/", "w", "e", "b", "h", "o", "o", "k", "-", "t", "e", "s", "t", "/">>

\* n copies of the character c
Rep(c, n) == [i \in 1..n |-> c]

UpperChars == <<"A", "B", "C", "D", "E", "F", "G", "H", "I", "J", "K", "L", "M", "N", "O", "P", "Q", "R", "S", "T", "U", "V", "W", "X", "Y", "Z">>

LowerChars == <<"a", "b", "c", "d", "e", "f", "g", "h", "i", "j", "k", "l", "m", "n", "o", "p", "q", "r", "s", "t", "u", "v", "w", "x", "y", "z">>

DigitChars == {"0", "1", "2", "3", "4", "5", "6", "7", "8", "9"}

\* the lower-case form of a character (the `i` flag of a RegExp)
LowerChar(c) ==
    IF \E i \in 1..Len(UpperChars) : UpperChars[i] = c
      THEN LowerChars[CHOOSE i \in 1..Len(UpperChars) : UpperChars[i] = c]
      ELSE c

RECURSIVE ToLower(_)
ToLower(s) == IF Len(s) = 0 THEN <<>> ELSE <<LowerChar(Head(s))>> \o ToLower(Tail(s))

\* String.prototype.startsWith
StartsWith(s, p) == Len(s) >= Len(p) /\ SubSeq(s, 1, Len(p)) = p

\* String.prototype.indexOf, 1-based, 0 when t does not occur in s
IndexOf(s, t) ==
    IF Includes(s, t)
      THEN CHOOSE i \in 1..(Len(s) - Len(t) + 1) :
             /\ SubSeq(s, i, i + Len(t) - 1) = t
             /\ \A j \in 1..(i - 1) : SubSeq(s, j, j + Len(t) - 1) # t
      ELSE 0

\* String.prototype.split with a non-empty string separator: the empty string
\* splits into one empty piece
RECURSIVE Split(_, _)
Split(s, sep) ==
    LET i == IndexOf(s, sep) IN
    IF i = 0 THEN <<s>>
    ELSE <<SubSeq(s, 1, i - 1)>> \o Split(SubSeq(s, i + Len(sep), Len(s)), sep)

\* Array.prototype.join
RECURSIVE Join(_, _)
Join(parts, sep) ==
    IF Len(parts) = 0 THEN <<>>
    ELSE IF Len(parts) = 1 THEN parts[1]
    ELSE parts[1] \o sep \o Join(Tail(parts), sep)

WhiteSpace == {" ", "\t"}

\* String.prototype.trim
RECURSIVE Trim(_)
Trim(s) ==
    IF Len(s) = 0 THEN s
    ELSE IF s[1] \in WhiteSpace THEN Trim(Tail(s))
    ELSE IF s[Len(s)] \in WhiteSpace THEN Trim(SubSeq(s, 1, Len(s) - 1))
    ELSE s

\* a request field: absent from the JSON body (undefined), a string, or a JSON
\* number (text holds its decimal digits)
Undefined == [defined |-> FALSE, isString |-> FALSE, text |-> <<>>]

Str(s) == [defined |-> TRUE, isString |-> TRUE, text |-> s]

Num(digits) == [defined |-> TRUE, isString |-> FALSE, text |-> digits]

\* JavaScript truthiness of a field's value (the operand of `!`): undefined, ""
\* and 0 are falsy
Truthy(f) ==
    /\ f.defined
    /\ IF f.isString THEN f.text # <<>> ELSE f.text # <<"0">>

Host == <<"n", "8", "n">>

WebhookUrls ==
    { Str(Host \o MarkerWebhook \o <<"x">>),
      Str(Host \o MarkerWebhookTest \o <<"x">>),
      Str(Host \o <<"/", "w", "e", "b", "h", "o", "o", "k">>),
      Str(Host \o <<"/", "h", "o", "o", "k", "/", "x">>),
      Str(Host \o <<"/", "w", "e", "b", "h", "o", "o", "k", "-", "t", "e", "s", "t">>),
      Str(<<>>),
      Num(<<"7">>),
      Undefined }

UrlA == <<"a">>

UrlB == <<"b">>

Bodies ==
    [ targetUrl  : {Undefined, Str(<<>>), Str(UrlA), Str(UrlB)},
      loginUrl   : {Undefined, Str(<<>>), Str(UrlA)},
      username   : {Undefined, Str(<<>>), Str(<<"u">>)},
      password   : {Undefined, Str(<<>>), Str(<<"p">>)},
      webhookUrl : WebhookUrls ]

\* route.ts:37 with the password left out of the test
MissingRequiredNoPassword(b) ==
    \/ ~Truthy(b.targetUrl)
    \/ ~Truthy(b.loginUrl)
    \/ ~Truthy(b.username)
    \/ ~Truthy(b.webhookUrl)

\* route.ts:37
MissingRequired(b) ==
    \/ ~Truthy(b.targetUrl)
    \/ ~Truthy(b.loginUrl)
    \/ ~Truthy(b.username)
    \/ ~Truthy(b.password)
    \/ ~Truthy(b.webhookUrl)

\* route.ts:41
InvalidWebhookUrl(url) ==
    /\ ~Includes(url.text, MarkerWebhook)
    /\ ~Includes(url.text, MarkerWebhookTest)

(***************************************************************************)
(* Cookies                                                                 *)
(***************************************************************************)
\* name and value of the i-th cookie of the site's jar: every other name matches a
\* critical pattern, and the third value is long enough to be a session token
JarName(i) == (IF i % 2 = 0 THEN <<"s", "i", "d">> ELSE <<"c">>) \o Rep("x", i)

JarValue(i) == IF i = 3 THEN Rep("v", 101) ELSE Rep("v", i)

\* the i-th cookie as extractAllCookies maps it from the browser's jar
ContextCookie(i) ==
    [name |-> JarName(i), value |-> JarValue(i), domain |-> <<"s", ".", "i", "o">>,
     path |-> <<"/", "a">>, expires |-> -1, httpOnly |-> (i % 2 = 0), secure |-> TRUE,
     sameSite |-> "Lax"]

\* window.location.hostname, where a `window` exists
WindowHostname == <<"h", "o", "s", "t">>

\* the i-th cookie as extractViaJavaScript builds it from a document.cookie segment
JsCookie(i) ==
    [name |-> JarName(i), value |-> JarValue(i), domain |-> WindowHostname, path |-> <<"/">>]

ContextResult(n) == [i \in 1..n |-> ContextCookie(i)]

JsResult(n) == [i \in 1..n |-> JsCookie(i)]

\* extractAllCookies: the jar's cookies, or [] when context.cookies() rejects
extractAllCookies(jarSize, cookiesRejects) ==
    IF cookiesRejects THEN <<>> ELSE ContextResult(jarSize)

\* Whether a global `window` exists where extractViaJavaScript's map callback runs.
\* The callback runs in the route handler's Node.js process, not in the page.
ServerHasWindow == FALSE

\* part_001:119, .filter((c) => c.trim())
IsNonBlank(c) == Len(Trim(c)) > 0

\* part_001:120-128, the map callback
ParseSegment(c) ==
    LET parts == Split(Trim(c), <<"=">>)
    IN [name |-> Trim(parts[1]),
        value |-> Trim(Join(Tail(parts), <<"=">>)),
        domain |-> WindowHostname,
        path |-> <<"/">>]

\* extractViaJavaScript: page.evaluate returns document.cookie; the segments are
\* parsed in the server process, where `window.location.hostname` is evaluated
\* once per non-blank segment; any exception is caught and [] returned
extractViaJavaScript(cookieString, evaluateRejects) ==
    IF evaluateRejects THEN <<>>
    ELSE LET segments == SelectSeq(Split(cookieString, <<";">>), IsNonBlank)
         IN IF Len(segments) = 0 THEN <<>>
            ELSE IF ~ServerHasWindow THEN <<>>
            ELSE [i \in 1..Len(segments) |-> ParseSegment(segments[i])]

\* route.ts:365 with `>` in place of `>=`
SelectCookiesStrict(ctx, js) ==
    IF Len(ctx) > Len(js) THEN ctx ELSE js

\* route.ts:365
SelectCookies(ctx, js) ==
    IF Len(ctx) >= Len(js) THEN ctx ELSE js

\* route.ts:366 with the two labels swapped
SelectMethodSwapped(ctx, js) ==
    IF Len(ctx) >= Len(js) THEN "javascript" ELSE "context"

\* route.ts:366
SelectMethod(ctx, js) ==
    IF Len(ctx) >= Len(js) THEN "context" ELSE "javascript"

\* performCompleteExtraction, part_001:366
PceSelectCookies(ctx, js) ==
    IF Len(ctx) > 0 THEN ctx ELSE js

(***************************************************************************)
(* Cookie helpers of lib/cookie-extractor                                  *)
(***************************************************************************)
\* part_001:28-54; every pattern is a literal (the dots are escaped) with flag i
CRITICAL_PATTERNS ==
    << <<"s", "e", "s", "s", "i", "o", "n">>,
       <<"s", "i", "d">>,
       <<"s", "e", "s", "s", "i", "o", "n", "i", "d">>,
       <<"j", "s", "e", "s", "s", "i", "o", "n", "i", "d">>,
       <<"p", "h", "p", "s", "e", "s", "s", "i", "d">>,
       <<"a", "s", "p", ".", "n", "e", "t", "_", "s", "e", "s", "s", "i", "o", "n", "i", "d">>,
       <<"a", "u", "t", "h">>,
       <<"t", "o", "k", "e", "n">>,
       <<"j", "w", "t">>,
       <<"a", "c", "c", "e", "s", "s", "_", "t", "o", "k", "e", "n">>,
       <<"r", "e", "f", "r", "e", "s", "h", "_", "t", "o", "k", "e", "n">>,
       <<"u", "s", "e", "r", "_", "t", "o", "k", "e", "n">>,
       <<"c", "s", "r", "f">>,
       <<"x", "s", "r", "f">>,
       <<"c", "r", "u", "m", "b">>,
       <<"_", "t", "o", "k", "e", "n">>,
       <<"c", "o", "n", "n", "e", "c", "t", ".", "s", "i", "d">>,
       <<"l", "a", "r", "a", "v", "e", "l", "_", "s", "e", "s", "s", "i", "o", "n">>,
       <<"S", "E", "R", "V", "E", "R", "I", "D">>,
       <<"A", "W", "S", "A", "L", "B">>,
       <<"c", "f", "_", "c", "l", "e", "a", "r", "a", "n", "c", "e">>,
       <<"_", "_", "S", "e", "c", "u", "r", "e">>,
       <<"_", "_", "H", "o", "s", "t">>,
       <<"L", "E", "E", "T", "C", "O", "D", "E", "_", "S", "E", "S", "S", "I", "O", "N">>,
       <<"I", "N", "G", "R", "E", "S", "S", "C", "O", "O", "K", "I", "E">> >>

Range(f) == {f[i] : i \in DOMAIN f}

\* the patterns as the `i` flag makes them compare
LowerPatterns == {ToLower(CRITICAL_PATTERNS[p]) : p \in 1..Len(CRITICAL_PATTERNS)}

\* part_001:147, CRITICAL_PATTERNS.some((pattern) => pattern.test(cookie.name))
MatchesPattern(name) ==
    \E pattern \in LowerPatterns : Includes(ToLower(name), pattern)

\* cookie.value.length > 80
LongValueLength == 80

\* part_001:150 with 800 typed for 80
IsLongValueAbove800(value) == Len(value) > 800

\* part_001:150
IsLongValue(value) == Len(value) > LongValueLength

\* part_001:153
IsJWT(value) == StartsWith(value, <<"e", "y", "J">>)

\* the character class [A-Za-z0-9+/=_-]
Base64Chars ==
    Range(UpperChars) \cup Range(LowerChars) \cup DigitChars \cup {"+", "/", "=", "_", "-"}

\* cookie.value.length > 50
EncodedMinLength == 50

\* part_001:156
IsEncoded(value) ==
    /\ Len(value) >= 1
    /\ \A i \in 1..Len(value) : value[i] \in Base64Chars
    /\ Len(value) > EncodedMinLength

\* part_001:158
IsCritical(cookie) ==
    \/ MatchesPattern(cookie.name)
    \/ IsLongValue(cookie.value)
    \/ IsJWT(cookie.value)
    \/ IsEncoded(cookie.value)

\* part_001:143-161, the Set `critical` in insertion order
RECURSIVE CriticalFold(_, _)
CriticalFold(cookies, critical) ==
    IF Len(cookies) = 0 THEN critical
    ELSE CriticalFold(Tail(cookies),
                      IF IsCritical(Head(cookies)) /\ Head(cookies).name \notin Range(critical)
                        THEN Append(critical, Head(cookies).name)
                        ELSE critical)

\* part_001:142-164 with `critical` created anew for every cookie
identifyCriticalCookiesLastOnly(cookies) ==
    IF Len(cookies) = 0 THEN <<>>
    ELSE CriticalFold(<<cookies[Len(cookies)]>>, <<>>)

\* part_001:142-164
identifyCriticalCookies(cookies) == CriticalFold(cookies, <<>>)

\* cookie.value.length > 100
SessionTokenLength == 100

\* part_001:173
IsSessionToken(cookie) == Len(cookie.value) > SessionTokenLength

\* part_001:174-178
TokenOf(cookie) ==
    [name |-> cookie.name, value |-> cookie.value, length |-> Len(cookie.value)]

\* one step of the stable sort with comparator (a, b) => b.length - a.length:
\* t goes behind every entry at least as long as it
InsertByLength(sorted, t) ==
    LET k == Cardinality({i \in 1..Len(sorted) : sorted[i].length >= t.length})
    IN SubSeq(sorted, 1, k) \o <<t>> \o SubSeq(sorted, k + 1, Len(sorted))

RECURSIVE SortByLengthDesc(_, _)
SortByLengthDesc(tokens, sorted) ==
    IF Len(tokens) = 0 THEN sorted
    ELSE SortByLengthDesc(Tail(tokens), InsertByLength(sorted, Head(tokens)))

\* part_001:171-180 without the sort of line 179
extractSessionTokensUnsorted(cookies) ==
    LET kept == SelectSeq(cookies, IsSessionToken)
    IN [i \in 1..Len(kept) |-> TokenOf(kept[i])]

\* part_001:171-180
extractSessionTokens(cookies) ==
    LET kept == SelectSeq(cookies, IsSessionToken)
    IN SortByLengthDesc([i \in 1..Len(kept) |-> TokenOf(kept[i])], <<>>)

\* part_001:188 with "," as the separator
buildCookieStringCommas(cookies) ==
    Join([i \in 1..Len(cookies) |-> cookies[i].name \o <<"=">> \o cookies[i].value],
         <<",", " ">>)

\* part_001:187-189
buildCookieString(cookies) ==
    Join([i \in 1..Len(cookies) |-> cookies[i].name \o <<"=">> \o cookies[i].value],
         <<";", " ">>)

\* what document.cookie holds for a jar: the cookies page script may read
IsScriptVisible(cookie) == ~cookie.httpOnly

DocumentCookie(jar) == buildCookieString(SelectSeq(jar, IsScriptVisible))

(***************************************************************************)
(* Payload and responses                                                   *)
(***************************************************************************)
NoWebhookError == [kind |-> "null", attempt |-> 0]

\* route.ts:375-385: the values derived from the selected cookies
Classification(all) ==
    [ criticalCookieNames |-> identifyCriticalCookies(all),
      sessionTokens |-> extractSessionTokens(all),
      cookieString |-> buildCookieString(all) ]

\* route.ts:391-422 with every cookie value cut to its first 50 characters
BuildWebhookPayloadCutValues(b, ctx, js, all, method) ==
    LET c == Classification(all)
        Cut(v) == IF Len(v) > 50 THEN SubSeq(v, 1, 50) ELSE v
    IN [ built |-> TRUE,
         targetUrl |-> b.targetUrl,
         loginUrl |-> b.loginUrl,
         username |-> b.username,
         extraction |-> [totalCookies |-> Len(all),
                         criticalCookies |-> Len(c.criticalCookieNames),
                         sessionTokens |-> Len(c.sessionTokens),
                         cookieStringLength |-> Len(c.cookieString),
                         extractionMethod |-> method],
         criticalCookieNames |-> c.criticalCookieNames,
         sessionTokens |-> c.sessionTokens,
         cookies |-> [i \in 1..Len(all) |-> [all[i] EXCEPT !.value = Cut(@)]],
         cookieString |-> c.cookieString,
         extractionMethods |->
             [contextCookies |-> Len(ctx), jsCookies |-> Len(js), methodUsed |-> method] ]

\* route.ts:391-422 (the password is not a field of the payload)
BuildWebhookPayload(b, ctx, js, all, method) ==
    LET c == Classification(all)
    IN [ built |-> TRUE,
         targetUrl |-> b.targetUrl,
         loginUrl |-> b.loginUrl,
         username |-> b.username,
         extraction |-> [totalCookies |-> Len(all),
                         criticalCookies |-> Len(c.criticalCookieNames),
                         sessionTokens |-> Len(c.sessionTokens),
                         cookieStringLength |-> Len(c.cookieString),
                         extractionMethod |-> method],
         criticalCookieNames |-> c.criticalCookieNames,
         sessionTokens |-> c.sessionTokens,
         cookies |-> all,
         cookieString |-> c.cookieString,
         extractionMethods |->
             [contextCookies |-> Len(ctx), jsCookies |-> Len(js), methodUsed |-> method] ]

NoPayload == [built |-> FALSE]

PreviewLength == 50

\* route.ts:480: t.value.substring(0, 50) + (t.value.length > 50 ? "..." : "")
Preview(value) ==
    IF Len(value) > PreviewLength
      THEN SubSeq(value, 1, PreviewLength) \o <<".", ".", ".">>
      ELSE value

\* route.ts:477-482
TokenSummary(t) ==
    [name |-> t.name, length |-> t.length, preview |-> Preview(t.value),
     fullLength |-> Len(t.value)]

\* route.ts:464-490 without the webhookError member: the fields the JSON body
\* carries whatever the delivery result; c holds the values of lines 375-385
SuccessFields(ctx, js, all, method, sent, c) ==
    [ status |-> "success",
      http |-> 200,
      message |-> IF sent THEN "Successfully extracted and sent to webhook"
                          ELSE "Successfully extracted",
      webhookSent |-> sent,
      extraction |-> [totalCookies |-> Len(all),
                      criticalCookies |-> Len(c.criticalCookieNames),
                      sessionTokens |-> Len(c.sessionTokens),
                      cookieStringLength |-> Len(c.cookieString),
                      extractionMethod |-> method],
      criticalCookieNames |-> c.criticalCookieNames,
      sessionTokens |-> [i \in 1..Len(c.sessionTokens) |-> TokenSummary(c.sessionTokens[i])],
      cookies |-> all,
      cookieString |-> c.cookieString,
      extractionMethods |->
          [context |-> Len(ctx), javascript |-> Len(js), used |-> method] ]

\* route.ts:468 as `webhookError: webhookError`, without the test of webhookSuccess
BuildSuccessResponseKeepsError(ctx, js, all, method, sent, werr, c) ==
    SuccessFields(ctx, js, all, method, sent, c) @@ [webhookError |-> werr]

\* route.ts:464-490; a member whose value is undefined (webhookError at line 468
\* after a delivered run) is left out of the JSON body
BuildSuccessResponse(ctx, js, all, method, sent, werr, c) ==
    IF sent THEN SuccessFields(ctx, js, all, method, sent, c)
    ELSE SuccessFields(ctx, js, all, method, sent, c) @@ [webhookError |-> werr]

\* route.ts:38, 42-48, 57-63, 508-515
ErrorResponse(code, msg) ==
    [status |-> "error", http |-> code, message |-> msg]

NoResponse == [status |-> "none"]

Count(log, e) == Cardinality({i \in 1..Len(log) : log[i] = e})

(***************************************************************************)
(* The run of POST                                                         *)
(***************************************************************************)
RunInit ==
    /\ body \in Bodies
    /\ pc = "parse"
    /\ browser = "null"
    /\ attempt = 0
    /\ navigationSuccess = FALSE
    /\ usernameField = "null"
    /\ passwordField = "null"
    /\ submitButton = "null"
    /\ contextCookies = <<>>
    /\ jsCookies = <<>>
    /\ allCookies = <<>>
    /\ extractionMethod = "unset"
    /\ webhookPayload = NoPayload
    /\ webhookSuccess = FALSE
    /\ webhookError = NoWebhookError
    /\ error = "none"
    /\ response = NoResponse
    /\ events = <<>>

MergeIdle ==
    /\ mc = 0
    /\ mj = 0
    /\ mPost = [applied |-> FALSE]
    /\ mPce = [applied |-> FALSE]

HelpersIdle ==
    /\ pin = <<>>
    /\ pout = [phase |-> "idle"]

DiscoveryIdle ==
    /\ dRole = "username"
    /\ dVisible = {}
    /\ dResult = [applied |-> FALSE]

\* the requests served at once in the model
Runs == {1, 2}

\* two requests have arrived and neither handler has launched a browser yet
PairIdle ==
    /\ pRun = [r \in Runs |-> [pc |-> "launch", context |-> 0, cookies |-> {},
                                status |-> "running"]]
    /\ pSlot = [r \in Runs |-> 0]
    /\ pBrowsers = <<>>
    /\ pContexts = <<>>

\* solveTurnstileChallenge has been called and has made no call yet
TurnstileIdle ==
    /\ tPc = "detect"
    /\ tSelector = 1
    /\ tEvents = <<>>
    /\ tResult = [returned |-> FALSE]

\* part_000:42, useState<number | null>(null), 0 for null; no timer pending
DashboardIdle ==
    /\ copiedIndex = 0
    /\ timers = <<>>
    /\ lastCopy = [index |-> 0, age |-> 0]

\* what the specifications of the parts leave untouched besides their own variables
OthersIdle == PairIdle /\ TurnstileIdle /\ DashboardIdle

Init == RunInit /\ MergeIdle /\ HelpersIdle /\ DiscoveryIdle /\ OthersIdle

\* a step that only moves the run on
Goto(next) ==
    /\ pc' = next
    /\ UNCHANGED <<body, browser, attempt, navigationSuccess, usernameField,
                   passwordField, submitButton, contextCookies, jsCookies, allCookies,
                   extractionMethod, webhookPayload, webhookSuccess, webhookError,
                   error, response, events>>

\* throw inside the inner try (route.ts:105-490): control goes to the catch of line 491
ThrowInner(msg, evs) ==
    /\ pc' = "innerCatch"
    /\ error' = msg
    /\ events' = events \o evs
    /\ UNCHANGED <<body, browser, attempt, navigationSuccess, usernameField,
                   passwordField, submitButton, contextCookies, jsCookies, allCookies,
                   extractionMethod, webhookPayload, webhookSuccess, webhookError,
                   response>>

\* throw in the outer try but outside the inner one (route.ts:33-103)
ThrowOuter(msg, evs) ==
    /\ pc' = "outerCatch"
    /\ error' = msg
    /\ events' = events \o evs
    /\ UNCHANGED <<body, browser, attempt, navigationSuccess, usernameField,
                   passwordField, submitButton, contextCookies, jsCookies, allCookies,
                   extractionMethod, webhookPayload, webhookSuccess, webhookError,
                   response>>

\* return NextResponse.json(...) before the browser exists
ReturnEarly(r) ==
    /\ pc' = "done"
    /\ response' = r
    /\ UNCHANGED <<body, browser, attempt, navigationSuccess, usernameField,
                   passwordField, submitButton, contextCookies, jsCookies, allCookies,
                   extractionMethod, webhookPayload, webhookSuccess, webhookError,
                   error, events>>

\* one more call on the outside world, then on to `next`
Do(evs, next) ==
    /\ pc' = next
    /\ events' = events \o evs
    /\ UNCHANGED <<body, browser, attempt, navigationSuccess, usernameField,
                   passwordField, submitButton, contextCookies, jsCookies, allCookies,
                   extractionMethod, webhookPayload, webhookSuccess, webhookError,
                   error, response>>

\* route.ts:33: request.json() resolves, or rejects on a body that is not JSON
ParseBody ==
    /\ pc = "parse"
    /\ \/ Goto("validate")
       \/ ThrowOuter("Unexpected token in JSON", <<>>)

\* route.ts:36-49
Validate ==
    /\ pc = "validate"
    /\ IF MissingRequired(body)
         THEN ReturnEarly(ErrorResponse(400, "Missing required fields"))
       ELSE IF ~body.webhookUrl.isString
         THEN ThrowOuter("webhookUrl.includes is not a function", <<>>)
       ELSE IF InvalidWebhookUrl(body.webhookUrl)
         THEN ReturnEarly(ErrorResponse(400, "Invalid webhook URL"))
       ELSE Goto("import")

\* route.ts:51-64
ImportPlaywright ==
    /\ pc = "import"
    /\ \/ Goto("launch")
       \/ ReturnEarly(ErrorResponse(500, "Playwright is not available"))

\* route.ts:66-92
Launch ==
    /\ pc = "launch"
    /\ \/ /\ browser' = "handle"
          /\ pc' = "newContext"
          /\ events' = Append(events, "launch")
          /\ UNCHANGED <<body, attempt, navigationSuccess, usernameField, passwordField,
                         submitButton, contextCookies, jsCookies, allCookies,
                         extractionMethod, webhookPayload, webhookSuccess,
                         webhookError, error, response>>
       \/ ThrowOuter("launch failed", <<"launch:fail">>)

\* route.ts:94-101
NewContext ==
    /\ pc = "newContext"
    /\ \/ Do(<<"newContext">>, "newPage")
       \/ ThrowOuter("newContext failed", <<>>)

\* route.ts:103
NewPage ==
    /\ pc = "newPage"
    /\ \/ /\ pc' = "navigate"
          /\ attempt' = 1
          /\ events' = Append(events, "newPage")
          /\ UNCHANGED <<body, browser, navigationSuccess, usernameField, passwordField,
                         submitButton, contextCookies, jsCookies, allCookies,
                         extractionMethod, webhookPayload, webhookSuccess,
                         webhookError, error, response>>
       \/ ThrowOuter("newPage failed", <<>>)

\* what the login URL serves: the login form alone, or the form with an
\* anti-automation challenge (one of the markers of part_002:17-23 is in the page)
LoginPages == {"page:plain", "page:challenge"}

\* route.ts:109-133 with the pause of line 130 taken after the third attempt too
NavigateAttemptAlwaysPauses ==
    /\ pc = "navigate"
    /\ attempt <= NavMaxAttempts
    /\ \/ /\ navigationSuccess' = TRUE
          /\ \E idle \in {"networkidle", "networkidle:timeout"}, shown \in LoginPages :
                events' = events \o <<"goto:ok", shown, idle>>
          /\ pc' = "navCheck"
          /\ UNCHANGED attempt
       \/ /\ events' = events \o <<"goto:fail", "navDelay">>
          /\ attempt' = attempt + 1
          /\ pc' = IF attempt + 1 <= NavMaxAttempts THEN "navigate" ELSE "navCheck"
          /\ UNCHANGED navigationSuccess
    /\ UNCHANGED <<body, browser, usernameField, passwordField, submitButton,
                   contextCookies, jsCookies, allCookies, extractionMethod,
                   webhookPayload, webhookSuccess, webhookError, error, response>>

\* route.ts:109-133, one iteration of the navigation loop: page.goto resolves
\* (the network-idle wait after it may time out, which is swallowed) or rejects
NavigateAttempt ==
    /\ pc = "navigate"
    /\ attempt <= NavMaxAttempts
    /\ \/ /\ navigationSuccess' = TRUE
          /\ \E idle \in {"networkidle", "networkidle:timeout"}, shown \in LoginPages :
                events' = events \o <<"goto:ok", shown, idle>>
          /\ pc' = "navCheck"
          /\ UNCHANGED attempt
       \/ /\ events' = events \o <<"goto:fail">>
                         \o (IF attempt < NavMaxAttempts THEN <<"navDelay">> ELSE <<>>)
          /\ attempt' = attempt + 1
          /\ pc' = IF attempt + 1 <= NavMaxAttempts THEN "navigate" ELSE "navCheck"
          /\ UNCHANGED navigationSuccess
    /\ UNCHANGED <<body, browser, usernameField, passwordField, submitButton,
                   contextCookies, jsCookies, allCookies, extractionMethod,
                   webhookPayload, webhookSuccess, webhookError, error, response>>

\* route.ts:135-139 without the throw
NavCheckNoThrow ==
    /\ pc = "navCheck"
    /\ Goto("settle")

\* route.ts:135-139
NavCheck ==
    /\ pc = "navCheck"
    /\ IF ~navigationSuccess
         THEN ThrowInner("Failed to load login page after 3 attempts", <<>>)
         ELSE Goto("settle")

\* route.ts:141-146 without the try around the load-state wait
SettleThrowsOnTimeout ==
    /\ pc = "settle"
    /\ \/ Do(<<"load">>, "findUsername")
       \/ ThrowInner("load state wait timed out", <<"load:timeout">>)

\* route.ts:141-146: the load-state wait may time out, which is swallowed
Settle ==
    /\ pc = "settle"
    /\ \E w \in {"load", "load:timeout"} : Do(<<w>>, "findUsername")

\* route.ts:200-229: some selector of the list has a visible match, or none has;
\* without a match the inputs of the page are logged and the run throws
FindUsername ==
    /\ pc = "findUsername"
    /\ \/ /\ usernameField' = "handle"
          /\ pc' = "fillUsername"
          /\ UNCHANGED <<body, browser, attempt, navigationSuccess, passwordField,
                         submitButton, contextCookies, jsCookies, allCookies,
                         extractionMethod, webhookPayload, webhookSuccess,
                         webhookError, error, response, events>>
       \/ ThrowInner("Could not find username/email input field", <<"diagnostics">>)

\* route.ts:231-235
FillUsername ==
    /\ pc = "fillUsername"
    /\ \/ Do(<<"typeUsername">>, "findPassword")
       \/ ThrowInner("username field action failed", <<>>)

\* route.ts:238-253
FindPassword ==
    /\ pc = "findPassword"
    /\ \/ /\ passwordField' = "handle"
          /\ pc' = "fillPassword"
          /\ UNCHANGED <<body, browser, attempt, navigationSuccess, usernameField,
                         submitButton, contextCookies, jsCookies, allCookies,
                         extractionMethod, webhookPayload, webhookSuccess,
                         webhookError, error, response, events>>
       \/ ThrowInner("Could not find password input field", <<>>)

\* the message of a rejected passwordField.type(password): Playwright's text,
\* which ends with the call log of the action, and that log quotes the text typed
TypeRejected == "elementHandle.type: call log with the typed text"

\* route.ts:255-261: click, fill("") or type(password) may reject; the message of
\* the rejection is Playwright's and reaches the response unchanged (506-511)
FillPassword ==
    /\ pc = "fillPassword"
    /\ \/ Do(<<"typePassword">>, "findSubmit")
       \/ ThrowInner("password field action failed", <<>>)
       \/ ThrowInner(TypeRejected, <<>>)

\* route.ts:264-279
FindSubmit ==
    /\ pc = "findSubmit"
    /\ \/ /\ submitButton' = "handle"
          /\ pc' = "waitEnabled"
          /\ UNCHANGED <<body, browser, attempt, navigationSuccess, usernameField,
                         passwordField, contextCookies, jsCookies, allCookies,
                         extractionMethod, webhookPayload, webhookSuccess,
                         webhookError, error, response, events>>
       \/ ThrowInner("Could not find submit button", <<>>)

\* route.ts:281-293: the wait for the button to be enabled may time out, swallowed
WaitEnabled ==
    /\ pc = "waitEnabled"
    /\ \E w \in {"enabled", "enabled:timeout"} : Do(<<w>>, "submit")

\* route.ts:295-308 with the Enter press moved out of the catch block
SubmitAlwaysPressesEnter ==
    /\ pc = "submit"
    /\ \/ Do(<<"click:ok", "pressEnter">>, "postSubmit")
       \/ Do(<<"click:fail", "pressEnter">>, "postSubmit")
       \/ ThrowInner("press Enter failed", <<"click:fail", "pressEnter:fail">>)

\* route.ts:295-308: the click resolves; or it rejects and Enter is pressed on the
\* password field, which may itself reject
Submit ==
    /\ pc = "submit"
    /\ \/ Do(<<"click:ok">>, "postSubmit")
       \/ Do(<<"click:fail", "pressEnter">>, "postSubmit")
       \/ ThrowInner("press Enter failed", <<"click:fail", "pressEnter:fail">>)

\* route.ts:310-325: pause, failure-word scan, load-state wait. page.$ (313) may
\* reject whatever the page holds; textContent() (315) is awaited only when the
\* scan found a failure word, and may reject too (the page navigated since the
\* query); neither is inside a try
PostSubmit ==
    /\ pc = "postSubmit"
    /\ \/ \E scan \in {"scan:none", "scan:failureWord"} : Do(<<scan>>, "targetNav")
       \/ ThrowInner("page query failed", <<>>)
       \/ ThrowInner("textContent failed", <<"scan:failureWord">>)

\* route.ts:327-335 with the test of line 327 left out
TargetNavAlways ==
    /\ pc = "targetNav"
    /\ \E g \in {"gotoTarget:ok", "gotoTarget:fail"} : Do(<<g>>, "extract")

\* route.ts:327-335: a failed navigation to the target is swallowed
TargetNav ==
    /\ pc = "targetNav"
    /\ IF body.targetUrl # body.loginUrl
         THEN \E g \in {"gotoTarget:ok", "gotoTarget:fail"} : Do(<<g>>, "extract")
         ELSE Goto("extract")

\* route.ts:341-363: both strategies are called, in this order, whatever they return
Extract ==
    /\ pc = "extract"
    /\ \E jarSize \in 0..MaxCookies, cookiesRejects \in BOOLEAN, evaluateRejects \in BOOLEAN :
          /\ contextCookies' = extractAllCookies(jarSize, cookiesRejects)
          /\ jsCookies' = extractViaJavaScript(DocumentCookie(ContextResult(jarSize)),
                                               evaluateRejects)
    /\ events' = events \o <<"extractAllCookies", "extractViaJavaScript">>
    /\ pc' = "merge"
    /\ UNCHANGED <<body, browser, attempt, navigationSuccess, usernameField,
                   passwordField, submitButton, allCookies, extractionMethod,
                   webhookPayload, webhookSuccess, webhookError, error, response>>

\* route.ts:365-373 without the throw of lines 370-373
MergeNoThrow ==
    /\ pc = "merge"
    /\ allCookies' = SelectCookies(contextCookies, jsCookies)
    /\ extractionMethod' = SelectMethod(contextCookies, jsCookies)
    /\ pc' = "buildPayload"
    /\ UNCHANGED <<body, browser, attempt, navigationSuccess, usernameField,
                   passwordField, submitButton, contextCookies, jsCookies,
                   webhookPayload, webhookSuccess, webhookError, error, response, events>>

\* route.ts:365-373
Merge ==
    /\ pc = "merge"
    /\ allCookies' = SelectCookies(contextCookies, jsCookies)
    /\ extractionMethod' = SelectMethod(contextCookies, jsCookies)
    /\ IF Len(allCookies') = 0
         THEN /\ pc' = "innerCatch"
              /\ error' = "No cookies extracted from any method"
         ELSE /\ pc' = "buildPayload"
              /\ UNCHANGED error
    /\ UNCHANGED <<body, browser, attempt, navigationSuccess, usernameField,
                   passwordField, submitButton, contextCookies, jsCookies,
                   webhookPayload, webhookSuccess, webhookError, response, events>>

\* route.ts:375-425
BuildPayload ==
    /\ pc = "buildPayload"
    /\ webhookPayload' = BuildWebhookPayload(body, contextCookies, jsCookies,
                                             allCookies, extractionMethod)
    /\ webhookSuccess' = FALSE
    /\ webhookError' = NoWebhookError
    /\ attempt' = 1
    /\ pc' = "deliver"
    /\ UNCHANGED <<body, browser, navigationSuccess, usernameField, passwordField,
                   submitButton, contextCookies, jsCookies, allCookies,
                   extractionMethod, error, response, events>>

\* where the delivery loop goes after a failed attempt (route.ts:427)
AfterFailedAttempt == IF attempt + 1 <= WebhookMaxAttempts THEN "deliver" ELSE "closeSuccess"

\* route.ts:427-459 without the break of line 444
DeliverAttemptNoBreak ==
    /\ pc = "deliver"
    /\ attempt <= WebhookMaxAttempts
    /\ \/ /\ events' = Append(events, "post:2xx")
          /\ webhookSuccess' = TRUE
          /\ attempt' = attempt + 1
          /\ pc' = AfterFailedAttempt
          /\ UNCHANGED webhookError
       \/ /\ events' = Append(events, "post:non2xx")
          /\ webhookError' = [kind |-> "HTTP", attempt |-> attempt]
          /\ attempt' = attempt + 1
          /\ pc' = AfterFailedAttempt
          /\ UNCHANGED webhookSuccess
       \/ /\ events' = events \o <<"post:throw">>
                         \o (IF attempt < WebhookMaxAttempts THEN <<"webhookDelay">> ELSE <<>>)
          /\ webhookError' = [kind |-> "transport", attempt |-> attempt]
          /\ attempt' = attempt + 1
          /\ pc' = AfterFailedAttempt
          /\ UNCHANGED webhookSuccess
    /\ UNCHANGED <<body, browser, navigationSuccess, usernameField, passwordField,
                   submitButton, contextCookies, jsCookies, allCookies,
                   extractionMethod, webhookPayload, error, response>>

\* route.ts:427-459, one iteration of the delivery loop: the endpoint answers 2xx,
\* answers something else, or fetch rejects; only the catch block pauses. The
\* fetch of line 430 and the text() of line 446 are given no timeout and no
\* AbortSignal, so an endpoint that never finishes its answer leaves the await
\* pending.
DeliverAttempt ==
    /\ pc = "deliver"
    /\ attempt <= WebhookMaxAttempts
    /\ \/ /\ events' = Append(events, "post:2xx")
          /\ webhookSuccess' = TRUE
          /\ pc' = "closeSuccess"
          /\ UNCHANGED <<attempt, webhookError>>
       \/ /\ events' = Append(events, "post:non2xx")
          /\ webhookError' = [kind |-> "HTTP", attempt |-> attempt]
          /\ attempt' = attempt + 1
          /\ pc' = AfterFailedAttempt
          /\ UNCHANGED webhookSuccess
       \/ /\ events' = events \o <<"post:throw">>
                         \o (IF attempt < WebhookMaxAttempts THEN <<"webhookDelay">> ELSE <<>>)
          /\ webhookError' = [kind |-> "transport", attempt |-> attempt]
          /\ attempt' = attempt + 1
          /\ pc' = AfterFailedAttempt
          /\ UNCHANGED webhookSuccess
       \/ /\ events' = Append(events, "post:pending")
          /\ pc' = "suspended"
          /\ UNCHANGED <<attempt, webhookSuccess, webhookError>>
    /\ UNCHANGED <<body, browser, navigationSuccess, usernameField, passwordField,
                   submitButton, contextCookies, jsCookies, allCookies,
                   extractionMethod, webhookPayload, error, response>>

\* route.ts:461-462: browser.close() resolves, or rejects and the run is thrown
\* into the catch of line 491 with `browser` still set
CloseSuccess ==
    /\ pc = "closeSuccess"
    /\ \/ /\ browser' = "null"
          /\ pc' = "respondSuccess"
          /\ events' = Append(events, "close")
          /\ UNCHANGED error
       \/ /\ pc' = "innerCatch"
          /\ error' = "browser.close failed"
          /\ events' = Append(events, "close")
          /\ UNCHANGED browser
    /\ UNCHANGED <<body, attempt, navigationSuccess, usernameField, passwordField,
                   submitButton, contextCookies, jsCookies, allCookies,
                   extractionMethod, webhookPayload, webhookSuccess, webhookError,
                   response>>

\* route.ts:464-490; criticalCookieNames, sessionTokens and cookieString are the
\* locals of lines 375-385, the same values the payload of 387-422 holds
RespondSuccess ==
    /\ pc = "respondSuccess"
    /\ response' = BuildSuccessResponse(contextCookies, jsCookies, allCookies,
                                        extractionMethod, webhookSuccess, webhookError,
                                        [ criticalCookieNames |-> webhookPayload.criticalCookieNames,
                                          sessionTokens |-> webhookPayload.sessionTokens,
                                          cookieString |-> webhookPayload.cookieString ])
    /\ pc' = "done"
    /\ UNCHANGED <<body, browser, attempt, navigationSuccess, usernameField,
                   passwordField, submitButton, contextCookies, jsCookies, allCookies,
                   extractionMethod, webhookPayload, webhookSuccess, webhookError,
                   error, events>>

\* route.ts:491-497 without `browser = null`
InnerCatchKeepsBrowser ==
    /\ pc = "innerCatch"
    /\ events' = IF browser # "null" THEN Append(events, "close") ELSE events
    /\ pc' = "outerCatch"
    /\ UNCHANGED <<body, browser, attempt, navigationSuccess, usernameField,
                   passwordField, submitButton, contextCookies, jsCookies, allCookies,
                   extractionMethod, webhookPayload, webhookSuccess, webhookError,
                   error, response>>

\* route.ts:491-497: close (a rejection is swallowed), clear `browser`, rethrow
InnerCatch ==
    /\ pc = "innerCatch"
    /\ events' = IF browser # "null" THEN Append(events, "close") ELSE events
    /\ browser' = "null"
    /\ pc' = "outerCatch"
    /\ UNCHANGED <<body, attempt, navigationSuccess, usernameField, passwordField,
                   submitButton, contextCookies, jsCookies, allCookies,
                   extractionMethod, webhookPayload, webhookSuccess, webhookError,
                   error, response>>

\* route.ts:498-516 without the close of lines 499-503
OuterCatchNoClose ==
    /\ pc = "outerCatch"
    /\ response' = ErrorResponse(500, error)
    /\ pc' = "done"
    /\ UNCHANGED <<body, browser, attempt, navigationSuccess, usernameField,
                   passwordField, submitButton, contextCookies, jsCookies, allCookies,
                   extractionMethod, webhookPayload, webhookSuccess, webhookError,
                   error, events>>

\* route.ts:498-516: close if `browser` is set (a rejection is logged), answer 500
OuterCatch ==
    /\ pc = "outerCatch"
    /\ events' = IF browser # "null" THEN Append(events, "close") ELSE events
    /\ response' = ErrorResponse(500, error)
    /\ pc' = "done"
    /\ UNCHANGED <<body, browser, attempt, navigationSuccess, usernameField,
                   passwordField, submitButton, contextCookies, jsCookies, allCookies,
                   extractionMethod, webhookPayload, webhookSuccess, webhookError,
                   error>>

Next ==
    \/ ParseBody /\ UNCHANGED <<mergeVars, helperVars, discoveryVars, pairVars, turnstileVars, dashboardVars>>
    \/ Validate /\ UNCHANGED <<mergeVars, helperVars, discoveryVars, pairVars, turnstileVars, dashboardVars>>
    \/ ImportPlaywright /\ UNCHANGED <<mergeVars, helperVars, discoveryVars, pairVars, turnstileVars, dashboardVars>>
    \/ Launch /\ UNCHANGED <<mergeVars, helperVars, discoveryVars, pairVars, turnstileVars, dashboardVars>>
    \/ NewContext /\ UNCHANGED <<mergeVars, helperVars, discoveryVars, pairVars, turnstileVars, dashboardVars>>
    \/ NewPage /\ UNCHANGED <<mergeVars, helperVars, discoveryVars, pairVars, turnstileVars, dashboardVars>>
    \/ NavigateAttempt /\ UNCHANGED <<mergeVars, helperVars, discoveryVars, pairVars, turnstileVars, dashboardVars>>
    \/ NavCheck /\ UNCHANGED <<mergeVars, helperVars, discoveryVars, pairVars, turnstileVars, dashboardVars>>
    \/ Settle /\ UNCHANGED <<mergeVars, helperVars, discoveryVars, pairVars, turnstileVars, dashboardVars>>
    \/ FindUsername /\ UNCHANGED <<mergeVars, helperVars, discoveryVars, pairVars, turnstileVars, dashboardVars>>
    \/ FillUsername /\ UNCHANGED <<mergeVars, helperVars, discoveryVars, pairVars, turnstileVars, dashboardVars>>
    \/ FindPassword /\ UNCHANGED <<mergeVars, helperVars, discoveryVars, pairVars, turnstileVars, dashboardVars>>
    \/ FillPassword /\ UNCHANGED <<mergeVars, helperVars, discoveryVars, pairVars, turnstileVars, dashboardVars>>
    \/ FindSubmit /\ UNCHANGED <<mergeVars, helperVars, discoveryVars, pairVars, turnstileVars, dashboardVars>>
    \/ WaitEnabled /\ UNCHANGED <<mergeVars, helperVars, discoveryVars, pairVars, turnstileVars, dashboardVars>>
    \/ Submit /\ UNCHANGED <<mergeVars, helperVars, discoveryVars, pairVars, turnstileVars, dashboardVars>>
    \/ PostSubmit /\ UNCHANGED <<mergeVars, helperVars, discoveryVars, pairVars, turnstileVars, dashboardVars>>
    \/ TargetNav /\ UNCHANGED <<mergeVars, helperVars, discoveryVars, pairVars, turnstileVars, dashboardVars>>
    \/ Extract /\ UNCHANGED <<mergeVars, helperVars, discoveryVars, pairVars, turnstileVars, dashboardVars>>
    \/ Merge /\ UNCHANGED <<mergeVars, helperVars, discoveryVars, pairVars, turnstileVars, dashboardVars>>
    \/ BuildPayload /\ UNCHANGED <<mergeVars, helperVars, discoveryVars, pairVars, turnstileVars, dashboardVars>>
    \/ DeliverAttempt /\ UNCHANGED <<mergeVars, helperVars, discoveryVars, pairVars, turnstileVars, dashboardVars>>
    \/ CloseSuccess /\ UNCHANGED <<mergeVars, helperVars, discoveryVars, pairVars, turnstileVars, dashboardVars>>
    \/ RespondSuccess /\ UNCHANGED <<mergeVars, helperVars, discoveryVars, pairVars, turnstileVars, dashboardVars>>
    \/ InnerCatch /\ UNCHANGED <<mergeVars, helperVars, discoveryVars, pairVars, turnstileVars, dashboardVars>>
    \/ OuterCatch /\ UNCHANGED <<mergeVars, helperVars, discoveryVars, pairVars, turnstileVars, dashboardVars>>

Spec == Init /\ [][Next]_vars

(***************************************************************************)
(* The merge expressions on their own: both results drawn from 0..MaxCookies *)
(* cookies each, as the two strategies' contracts allow                    *)
(***************************************************************************)
RunIdle ==
    /\ body = [targetUrl |-> Str(UrlB), loginUrl |-> Str(UrlA), username |-> Str(<<"u">>),
               password |-> Str(<<"p">>), webhookUrl |-> Str(Host \o MarkerWebhook \o <<"x">>)]
    /\ pc = "idle"
    /\ browser = "null"
    /\ attempt = 0
    /\ navigationSuccess = FALSE
    /\ usernameField = "null"
    /\ passwordField = "null"
    /\ submitButton = "null"
    /\ contextCookies = <<>>
    /\ jsCookies = <<>>
    /\ allCookies = <<>>
    /\ extractionMethod = "unset"
    /\ webhookPayload = NoPayload
    /\ webhookSuccess = FALSE
    /\ webhookError = NoWebhookError
    /\ error = "none"
    /\ response = NoResponse
    /\ events = <<>>

MergeInit ==
    /\ RunIdle
    /\ mc \in 0..MaxCookies
    /\ mj \in 0..MaxCookies
    /\ mPost = [applied |-> FALSE]
    /\ mPce = [applied |-> FALSE]
    /\ HelpersIdle
    /\ DiscoveryIdle
    /\ OthersIdle

\* route.ts:365-366, 391-422, 464-490 applied to the two results
ApplyPostMerge ==
    /\ ~mPost.applied
    /\ LET ctx == ContextResult(mc)
           js == JsResult(mj)
           all == SelectCookies(ctx, js)
           method == SelectMethod(ctx, js)
       IN mPost' = [ applied |-> TRUE,
                     cookies |-> all,
                     payload |-> BuildWebhookPayload(body, ctx, js, all, method),
                     response |-> BuildSuccessResponse(ctx, js, all, method, TRUE,
                                                       NoWebhookError,
                                                       Classification(all)) ]
    /\ UNCHANGED <<mc, mj, mPce>>
    /\ UNCHANGED <<runVars, helperVars, discoveryVars, pairVars, turnstileVars, dashboardVars>>

\* part_001:360-366 applied to the two results
ApplyPceMerge ==
    /\ ~mPce.applied
    /\ mPce' = [applied |-> TRUE,
                cookies |-> PceSelectCookies(ContextResult(mc), JsResult(mj))]
    /\ UNCHANGED <<mc, mj, mPost>>
    /\ UNCHANGED <<runVars, helperVars, discoveryVars, pairVars, turnstileVars, dashboardVars>>

MergeNext == ApplyPostMerge \/ ApplyPceMerge

SpecMerge == MergeInit /\ [][MergeNext]_vars

(***************************************************************************)
(* The cookie helpers on their own: every sequence of at most MaxJar       *)
(* cookies of a pool that covers each criterion and each threshold         *)
(***************************************************************************)
\* a cookie as extractAllCookies returns it (part_001:64-73)
JarCookie(name, value, httpOnly) ==
    [name |-> name, value |-> value, domain |-> <<"s", ".", "i", "o">>, path |-> <<"/">>,
     expires |-> -1, httpOnly |-> httpOnly, secure |-> TRUE, sameSite |-> "Lax"]

CookiePool ==
    << JarCookie(<<"L", "E", "E", "T", "C", "O", "D", "E", "_", "S", "E", "S", "S", "I", "O", "N">>, Rep("a", 120), TRUE),
       JarCookie(<<"t", "h", "e", "m", "e">>, <<"d", "a", "r", "k">>, FALSE),
       JarCookie(<<"i", "d">>, <<"e", "y", "J", "h", "b", "G", "c">>, FALSE),
       JarCookie(<<"u", "i", "d">>, Rep("Z", 51), FALSE),
       JarCookie(<<"n", "o", "t", "e">>, Rep("%", 101), TRUE),
       JarCookie(<<"C", "s", "r", "f", "T", "o", "k", "e", "n">>, <<"a", "b", "c">>, FALSE),
       JarCookie(<<"l", "a", "n", "g">>, Rep("b", 50), FALSE),
       JarCookie(<<"b", "l", "o", "b">>, Rep("%", 80), FALSE),
       JarCookie(<<"w", "i", "d", "e">>, Rep("%", 100), FALSE),
       JarCookie(<<"k">>, <<"v", ";", " ", "w">>, FALSE),
       JarCookie(<<"e">>, <<"b", "=", "c", ";", "d">>, FALSE),
       JarCookie(<<"t", "h", "e", "m", "e">>, Rep("%", 90), FALSE) >>

Jars == UNION {[1..n -> Range(CookiePool)] : n \in 0..MaxJar}

HelpersInit ==
    /\ RunIdle
    /\ MergeIdle
    /\ pin \in Jars
    /\ pout = [phase |-> "idle"]
    /\ DiscoveryIdle
    /\ OthersIdle

\* identifyCriticalCookies(pin), first call
ApplyIdentifyCritical ==
    /\ pout.phase = "idle"
    /\ pout' = [phase |-> "critical", critical |-> identifyCriticalCookies(pin)]
    /\ UNCHANGED <<pin, runVars, mergeVars, discoveryVars, pairVars, turnstileVars, dashboardVars>>

\* identifyCriticalCookies(pin), second call on the same input
ApplyIdentifyCriticalAgain ==
    /\ pout.phase = "critical"
    /\ pout' = [phase |-> "criticalAgain", critical |-> pout.critical,
                criticalAgain |-> identifyCriticalCookies(pin)]
    /\ UNCHANGED <<pin, runVars, mergeVars, discoveryVars, pairVars, turnstileVars, dashboardVars>>

\* extractSessionTokens(pin)
ApplyExtractSessionTokens ==
    /\ pout.phase = "criticalAgain"
    /\ pout' = [phase |-> "tokens", critical |-> pout.critical,
                tokens |-> extractSessionTokens(pin)]
    /\ UNCHANGED <<pin, runVars, mergeVars, discoveryVars, pairVars, turnstileVars, dashboardVars>>

\* buildCookieString(pin)
ApplyBuildCookieString ==
    /\ pout.phase = "tokens"
    /\ pout' = [phase |-> "cookieString", cookieString |-> buildCookieString(pin)]
    /\ UNCHANGED <<pin, runVars, mergeVars, discoveryVars, pairVars, turnstileVars, dashboardVars>>

\* extractViaJavaScript(page) on a page whose document.cookie shows the jar
ApplyExtractViaJavaScript ==
    /\ pout.phase = "cookieString"
    /\ pout' = [phase |-> "js", js |-> extractViaJavaScript(DocumentCookie(pin), FALSE)]
    /\ UNCHANGED <<pin, runVars, mergeVars, discoveryVars, pairVars, turnstileVars, dashboardVars>>

HelpersNext ==
    \/ ApplyIdentifyCritical
    \/ ApplyIdentifyCriticalAgain
    \/ ApplyExtractSessionTokens
    \/ ApplyBuildCookieString
    \/ ApplyExtractViaJavaScript

SpecHelpers == HelpersInit /\ [][HelpersNext]_vars

\* ---- the run under fair scheduling ----

\* the positions whose step is a computation over the harvested cookies and is
\* enabled whatever the state: route.ts:340-365 (both reads catch their own
\* errors) and route.ts:377-422
ComputingPositions == {"extract", "buildPayload"}

\* every await of the handler that has settled lets the run take its next step.
\* At a computing position the step is always enabled, so weak fairness of it
\* says that the run does not stay there forever.
SpecLive ==
    /\ Init
    /\ [][Next]_vars
    /\ WF_vars(pc \notin ComputingPositions /\ Next)
    /\ []<>(pc \notin ComputingPositions)

\* ---- what the run writes to the log ----

\* an endpoint that answers a request it rejects with the body it was sent
EchoingEndpoints == {Host \o MarkerWebhookTest \o <<"x">>}

\* the part of JSON.stringify(webhookPayload) (route.ts:436) that holds the member
\* cookieString of line 411
RequestBodyText(payload) == payload.cookieString

\* route.ts:446: the text of a non-2xx answer
ErrorText(url, payload) ==
    IF url \in EchoingEndpoints THEN RequestBodyText(payload)
    ELSE <<"N", "o", "t", " ", "F", "o", "u", "n", "d">>

NamesOf(cookies) == [i \in 1..Len(cookies) |-> cookies[i].name]

\* route.ts:346, 359: cookies.slice(0, 3)
FirstThree(cookies) == SubSeq(cookies, 1, IF Len(cookies) < 3 THEN Len(cookies) ELSE 3)

\* the values the handler has written into log lines so far: the samples of names
\* (route.ts:344-349, 357-362), the critical names (376), the token names (381)
\* and the text of every non-2xx answer (447)
LoggedTexts ==
    (IF \E i \in 1..Len(events) : events[i] = "extractViaJavaScript"
       THEN {Join(NamesOf(FirstThree(contextCookies)), <<",", " ">>),
             Join(NamesOf(FirstThree(jsCookies)), <<",", " ">>)}
       ELSE {})
    \cup
    (IF webhookPayload.built
       THEN {Join(webhookPayload.criticalCookieNames, <<",", " ">>)}
            \cup {webhookPayload.sessionTokens[i].name :
                     i \in 1..Len(webhookPayload.sessionTokens)}
       ELSE {})
    \cup
    (IF \E i \in 1..Len(events) : events[i] = "post:non2xx"
       THEN {ErrorText(body.webhookUrl.text, webhookPayload)}
       ELSE {})

\* ---- field discovery: one selector loop on its own ----

\* route.ts:148-168
usernameSelectors ==
    << "input[data-cy=sign-in-email-input]", "input[name=login]", "#id_login",
       "input[name=username]", "input[name=email]", "input[type=email]",
       "input[id=username]", "input[id=email]", "input[id=login-email]",
       "input[placeholder*=email i]", "input[placeholder*=username i]",
       "input[placeholder*=E-mail i]", "input[autocomplete=username]",
       "input[autocomplete=email]",
       "form input[type=text]:visible", "form input:not([type]):visible" >>

\* route.ts:170-179
passwordSelectors ==
    << "input[data-cy=sign-in-password-input]", "#id_password",
       "input[name=password]", "input[type=password]", "input[id=password]",
       "input[autocomplete=current-password]" >>

\* route.ts:181-197
submitSelectors ==
    << "button[data-cy=sign-in-btn]", "#signin_btn",
       "button[type=submit]", "input[type=submit]", "button:has-text(Log in)",
       "button:has-text(Login)", "button:has-text(Sign in)", "button:has-text(Sign In)",
       "button:has-text(Submit)", "button:has-text(Continue)",
       "[role=button]:has-text(Log in)", "[role=button]:has-text(Sign in)",
       "[role=button]:has-text(Sign In)" >>

Roles == {"username", "password", "submit"}

SelectorsOf(role) ==
    IF role = "username" THEN usernameSelectors
    ELSE IF role = "password" THEN passwordSelectors
    ELSE submitSelectors

\* how many selectors of a list have a visible match on the page at most
MaxVisible == 2

NoField == [found |-> FALSE, selector |-> "none"]

\* page.waitForSelector(selector, {timeout: 2000, state: "visible"}): the handle of
\* the element the selector matches, or a timeout when it has no visible match
waitForSelector(selector, visible) ==
    IF selector \in visible THEN [found |-> TRUE, selector |-> selector]
    ELSE NoField

\* the loop of route.ts:201-211 from index i on, without its `break`: every
\* selector is probed and the last match is kept
RECURSIVE ProbeAllFrom(_, _, _, _, _)
ProbeAllFrom(selectors, visible, i, field, probes) ==
    IF i > Len(selectors) THEN [applied |-> TRUE, field |-> field, probes |-> probes]
    ELSE LET handle == waitForSelector(selectors[i], visible)
         IN ProbeAllFrom(selectors, visible, i + 1,
                         IF handle.found THEN handle ELSE field,
                         Append(probes, selectors[i]))

\* the loop of route.ts:201-211 (244-249, 266-275) from index i on: a probe that
\* times out goes on to the next selector, a probe that resolves ends the loop
RECURSIVE ProbeFrom(_, _, _, _)
ProbeFrom(selectors, visible, i, probes) ==
    IF i > Len(selectors) THEN [applied |-> TRUE, field |-> NoField, probes |-> probes]
    ELSE LET handle == waitForSelector(selectors[i], visible)
         IN IF handle.found
              THEN [applied |-> TRUE, field |-> handle,
                    probes |-> Append(probes, selectors[i])]
              ELSE ProbeFrom(selectors, visible, i + 1, Append(probes, selectors[i]))

FindFieldKeepsProbing(selectors, visible) ==
    ProbeAllFrom(selectors, visible, 1, NoField, <<>>)

\* route.ts:200-211, 238-249, 264-275
FindField(selectors, visible) == ProbeFrom(selectors, visible, 1, <<>>)

DiscoveryInit ==
    /\ RunIdle
    /\ MergeIdle
    /\ HelpersIdle
    /\ dRole \in Roles
    /\ dVisible \in {v \in SUBSET Range(SelectorsOf(dRole)) : Cardinality(v) <= MaxVisible}
    /\ dResult = [applied |-> FALSE]
    /\ OthersIdle

ApplyFindField ==
    /\ ~dResult.applied
    /\ dResult' = FindField(SelectorsOf(dRole), dVisible)
    /\ UNCHANGED <<dRole, dVisible, runVars, mergeVars, helperVars, pairVars, turnstileVars, dashboardVars>>

DiscoveryNext == ApplyFindField

SpecDiscovery == DiscoveryInit /\ [][DiscoveryNext]_vars

(***************************************************************************)
(* buildSetCookieString on its own (part_001:196-209)                      *)
(***************************************************************************)
DigitSeq == <<"0", "1", "2", "3", "4", "5", "6", "7", "8", "9">>

\* a number below 100 in two digits, as the fields of an HTTP date are padded
TwoDigits(n) == <<DigitSeq[(n \div 10) + 1], DigitSeq[(n % 10) + 1]>>

WeekDays == <<<<"S", "u", "n">>, <<"M", "o", "n">>, <<"T", "u", "e">>, <<"W", "e", "d">>, <<"T", "h", "u">>, <<"F", "r", "i">>, <<"S", "a", "t">>>>

\* Date.prototype.toUTCString for a time in milliseconds, for the times within
\* 24 days of 1 January 1970 (day 0, a Thursday)
toUTCString(ms) ==
    LET secs == ms \div 1000
        day == secs \div 86400
        sod == secs % 86400
        date == IF day < 0
                  THEN TwoDigits(32 + day) \o <<" ", "D", "e", "c", " ", "1", "9", "6", "9">>
                  ELSE TwoDigits(day + 1) \o <<" ", "J", "a", "n", " ", "1", "9", "7", "0">>
    IN WeekDays[((day + 4) % 7) + 1] \o <<",", " ">> \o date \o <<" ">>
         \o TwoDigits(sod \div 3600) \o <<":">> \o TwoDigits((sod % 3600) \div 60)
         \o <<":">> \o TwoDigits(sod % 60) \o <<" ", "G", "M", "T">>

\* the characters of a sameSite value
SameSiteText(v) ==
    CASE v = "Lax" -> <<"L", "a", "x">>
      [] v = "Strict" -> <<"S", "t", "r", "i", "c", "t">>
      [] v = "None" -> <<"N", "o", "n", "e">>
      [] OTHER -> <<>>

\* the operand of `if (c.f)`: an absent field is undefined, which is falsy
TruthyText(c, f) == f \in DOMAIN c /\ c[f] # <<>>

TruthyNumber(c, f) == f \in DOMAIN c /\ c[f] # 0

TruthyFlag(c, f) == f \in DOMAIN c /\ c[f]

TruthySameSite(c) == "sameSite" \in DOMAIN c /\ c.sameSite # ""

DomainMark == <<";", " ", "D", "o", "m", "a", "i", "n", "=">>

PathMark == <<";", " ", "P", "a", "t", "h", "=">>

ExpiresMark == <<";", " ", "E", "x", "p", "i", "r", "e", "s", "=">>

HttpOnlyMark == <<";", " ", "H", "t", "t", "p", "O", "n", "l", "y">>

SecureMark == <<";", " ", "S", "e", "c", "u", "r", "e">>

SameSiteMark == <<";", " ", "S", "a", "m", "e", "S", "i", "t", "e", "=">>

\* part_001:198-207, the callback of the map
SetCookieHeader(c) ==
    c.name \o <<"=">> \o c.value
      \o (IF TruthyText(c, "domain") THEN DomainMark \o c.domain ELSE <<>>)
      \o (IF TruthyText(c, "path") THEN PathMark \o c.path ELSE <<>>)
      \o (IF TruthyNumber(c, "expires") THEN ExpiresMark \o toUTCString(c.expires * 1000) ELSE <<>>)
      \o (IF TruthyFlag(c, "httpOnly") THEN HttpOnlyMark ELSE <<>>)
      \o (IF TruthyFlag(c, "secure") THEN SecureMark ELSE <<>>)
      \o (IF TruthySameSite(c) THEN SameSiteMark \o SameSiteText(c.sameSite) ELSE <<>>)

\* part_001:196-209
buildSetCookieString(cookies) == [i \in 1..Len(cookies) |-> SetCookieHeader(cookies[i])]

\* cookies as the two strategies return them (a session cookie of the jar with
\* expires = -1, a cookie of document.cookie with four fields), and cookies of the
\* jar with an expiry time, without flags, without sameSite
HeaderPool ==
    << ContextCookie(1),
       ContextCookie(2),
       JsCookie(1),
       [ContextCookie(1) EXCEPT !.expires = 1],
       [ContextCookie(2) EXCEPT !.expires = 90061, !.secure = FALSE, !.sameSite = "Strict"],
       [name |-> <<"n">>, value |-> <<"v">>, domain |-> <<>>, expires |-> 2000000,
        httpOnly |-> FALSE, secure |-> TRUE] >>

HeaderJars == UNION {[1..n -> Range(HeaderPool)] : n \in 0..MaxJar}

SetCookieInit ==
    /\ RunIdle
    /\ MergeIdle
    /\ pin \in HeaderJars
    /\ pout = [phase |-> "idle"]
    /\ DiscoveryIdle
    /\ OthersIdle

\* buildSetCookieString(pin)
ApplyBuildSetCookieString ==
    /\ pout.phase = "idle"
    /\ pout' = [phase |-> "setCookie", headers |-> buildSetCookieString(pin)]
    /\ UNCHANGED <<pin, runVars, mergeVars, discoveryVars, pairVars, turnstileVars, dashboardVars>>

SetCookieNext == ApplyBuildSetCookieString

SpecSetCookie == SetCookieInit /\ [][SetCookieNext]_vars

(***************************************************************************)
(* One run with every wait of the driver told apart: the outcome of the    *)
(* post-submit navigation wait and of the post-login load-state wait are   *)
(* recorded too, for one valid request                                     *)
(***************************************************************************)
NavigationWaits == {"navigation", "navigation:timeout"}

LoadStateWaits == {"domcontentloaded", "domcontentloaded:timeout"}

\* route.ts:295-308: the click and the navigation wait beside it (whose timeout
\* is swallowed by its own catch); after a rejected click, the Enter press and
\* the navigation wait after it (swallowed likewise)
SubmitAndWait ==
    /\ pc = "submit"
    /\ \/ \E nav \in NavigationWaits : Do(<<"click:ok", nav>>, "postSubmit")
       \/ \E nav \in NavigationWaits : Do(<<"click:fail", "pressEnter", nav>>, "postSubmit")
       \/ ThrowInner("press Enter failed", <<"click:fail", "pressEnter:fail">>)

\* route.ts:310-325: the failure-word scan, then the load-state wait inside its try
PostSubmitWaits ==
    /\ pc = "postSubmit"
    /\ \/ \E scan \in {"scan:none", "scan:failureWord"}, ls \in LoadStateWaits :
             Do(<<scan, ls>>, "targetNav")
       \/ ThrowInner("page query failed", <<>>)
       \/ ThrowInner("textContent failed", <<"scan:failureWord">>)

\* a request that passes validation, with a target that differs from the login URL
DriverInit ==
    /\ RunInit
    /\ body = [targetUrl |-> Str(UrlB), loginUrl |-> Str(UrlA), username |-> Str(<<"u">>),
               password |-> Str(<<"p">>), webhookUrl |-> Str(Host \o MarkerWebhook \o <<"x">>)]
    /\ MergeIdle
    /\ HelpersIdle
    /\ DiscoveryIdle
    /\ OthersIdle

DriverNext ==
    \/ ParseBody /\ UNCHANGED <<mergeVars, helperVars, discoveryVars, pairVars, turnstileVars, dashboardVars>>
    \/ Validate /\ UNCHANGED <<mergeVars, helperVars, discoveryVars, pairVars, turnstileVars, dashboardVars>>
    \/ ImportPlaywright /\ UNCHANGED <<mergeVars, helperVars, discoveryVars, pairVars, turnstileVars, dashboardVars>>
    \/ Launch /\ UNCHANGED <<mergeVars, helperVars, discoveryVars, pairVars, turnstileVars, dashboardVars>>
    \/ NewContext /\ UNCHANGED <<mergeVars, helperVars, discoveryVars, pairVars, turnstileVars, dashboardVars>>
    \/ NewPage /\ UNCHANGED <<mergeVars, helperVars, discoveryVars, pairVars, turnstileVars, dashboardVars>>
    \/ NavigateAttempt /\ UNCHANGED <<mergeVars, helperVars, discoveryVars, pairVars, turnstileVars, dashboardVars>>
    \/ NavCheck /\ UNCHANGED <<mergeVars, helperVars, discoveryVars, pairVars, turnstileVars, dashboardVars>>
    \/ Settle /\ UNCHANGED <<mergeVars, helperVars, discoveryVars, pairVars, turnstileVars, dashboardVars>>
    \/ FindUsername /\ UNCHANGED <<mergeVars, helperVars, discoveryVars, pairVars, turnstileVars, dashboardVars>>
    \/ FillUsername /\ UNCHANGED <<mergeVars, helperVars, discoveryVars, pairVars, turnstileVars, dashboardVars>>
    \/ FindPassword /\ UNCHANGED <<mergeVars, helperVars, discoveryVars, pairVars, turnstileVars, dashboardVars>>
    \/ FillPassword /\ UNCHANGED <<mergeVars, helperVars, discoveryVars, pairVars, turnstileVars, dashboardVars>>
    \/ FindSubmit /\ UNCHANGED <<mergeVars, helperVars, discoveryVars, pairVars, turnstileVars, dashboardVars>>
    \/ WaitEnabled /\ UNCHANGED <<mergeVars, helperVars, discoveryVars, pairVars, turnstileVars, dashboardVars>>
    \/ SubmitAndWait /\ UNCHANGED <<mergeVars, helperVars, discoveryVars, pairVars, turnstileVars, dashboardVars>>
    \/ PostSubmitWaits /\ UNCHANGED <<mergeVars, helperVars, discoveryVars, pairVars, turnstileVars, dashboardVars>>
    \/ TargetNav /\ UNCHANGED <<mergeVars, helperVars, discoveryVars, pairVars, turnstileVars, dashboardVars>>
    \/ Extract /\ UNCHANGED <<mergeVars, helperVars, discoveryVars, pairVars, turnstileVars, dashboardVars>>
    \/ Merge /\ UNCHANGED <<mergeVars, helperVars, discoveryVars, pairVars, turnstileVars, dashboardVars>>
    \/ BuildPayload /\ UNCHANGED <<mergeVars, helperVars, discoveryVars, pairVars, turnstileVars, dashboardVars>>
    \/ DeliverAttempt /\ UNCHANGED <<mergeVars, helperVars, discoveryVars, pairVars, turnstileVars, dashboardVars>>
    \/ CloseSuccess /\ UNCHANGED <<mergeVars, helperVars, discoveryVars, pairVars, turnstileVars, dashboardVars>>
    \/ RespondSuccess /\ UNCHANGED <<mergeVars, helperVars, discoveryVars, pairVars, turnstileVars, dashboardVars>>
    \/ InnerCatch /\ UNCHANGED <<mergeVars, helperVars, discoveryVars, pairVars, turnstileVars, dashboardVars>>
    \/ OuterCatch /\ UNCHANGED <<mergeVars, helperVars, discoveryVars, pairVars, turnstileVars, dashboardVars>>

SpecDriver == DriverInit /\ [][DriverNext]_vars

(***************************************************************************)
(* Two runs of POST in flight at once: the handles each run holds.         *)
(* chromium.launch starts a new browser process with a profile of its own; *)
(* a context belongs to the browser that made it and keeps its own jar.    *)
(***************************************************************************)
\* a module-level `browser` would be one slot shared by every run
BrowserSlotModuleLevel(r) == 1

\* route.ts:30, `let browser: any = null` is a local of POST: one slot per call
BrowserSlot(r) == r

\* the browser the run's `browser` variable refers to, 0 for null
BrowserOf(r) == pSlot[BrowserSlot(r)]

IsOpen(b) == b # 0 /\ pBrowsers[b].open

\* browser.close() called by run r
CloseBrowser(b, r) ==
    [pBrowsers EXCEPT ![b] = [@ EXCEPT !.open = FALSE, !.closedBy = @ \cup {r}]]

\* route.ts:66 chromium.launch, which may reject
PairLaunch(r) ==
    /\ pRun[r].pc = "launch"
    /\ \/ /\ pBrowsers' = Append(pBrowsers, [open |-> TRUE, launchedBy |-> r, closedBy |-> {}])
          /\ pSlot' = [pSlot EXCEPT ![BrowserSlot(r)] = Len(pBrowsers) + 1]
          /\ pRun' = [pRun EXCEPT ![r].pc = "newContext"]
       \/ /\ pRun' = [pRun EXCEPT ![r].pc = "outerCatch"]
          /\ UNCHANGED <<pBrowsers, pSlot>>
    /\ UNCHANGED pContexts

\* route.ts:94-103 browser.newContext and context.newPage, outside the inner try
PairNewContext(r) ==
    /\ pRun[r].pc = "newContext"
    /\ \/ /\ IsOpen(BrowserOf(r))
          /\ pContexts' = Append(pContexts, [browser |-> BrowserOf(r), jar |-> {}])
          /\ pRun' = [pRun EXCEPT ![r].pc = "login", ![r].context = Len(pContexts) + 1]
       \/ /\ pRun' = [pRun EXCEPT ![r].pc = "outerCatch"]
          /\ UNCHANGED pContexts
    /\ UNCHANGED <<pBrowsers, pSlot>>

\* route.ts:105-337, the page of the run's context logs in; the site answers
\* with the session cookie of that login, kept in the jar of the page's context
PairLogin(r) ==
    /\ pRun[r].pc = "login"
    /\ \/ /\ IsOpen(pContexts[pRun[r].context].browser)
          /\ pContexts' = [pContexts EXCEPT ![pRun[r].context].jar = @ \cup {r}]
          /\ pRun' = [pRun EXCEPT ![r].pc = "extract"]
       \/ /\ pRun' = [pRun EXCEPT ![r].pc = "innerCatch"]
          /\ UNCHANGED pContexts
    /\ UNCHANGED <<pBrowsers, pSlot>>

\* route.ts:340-375, context.cookies() reads the jar of the run's context; a
\* failed read is caught and leaves no cookies, which throws at 369-375
PairExtract(r) ==
    /\ pRun[r].pc = "extract"
    /\ \/ /\ IsOpen(pContexts[pRun[r].context].browser)
          /\ pContexts[pRun[r].context].jar # {}
          /\ pRun' = [pRun EXCEPT ![r].pc = "close",
                                   ![r].cookies = pContexts[pRun[r].context].jar]
       \/ /\ pRun' = [pRun EXCEPT ![r].pc = "innerCatch"]
    /\ UNCHANGED <<pBrowsers, pSlot, pContexts>>

\* route.ts:461-490, browser.close(), browser = null and the success response;
\* a rejected close, or a call on null, throws into the inner catch
PairClose(r) ==
    /\ pRun[r].pc = "close"
    /\ \/ /\ BrowserOf(r) # 0
          /\ pBrowsers' = CloseBrowser(BrowserOf(r), r)
          /\ pSlot' = [pSlot EXCEPT ![BrowserSlot(r)] = 0]
          /\ pRun' = [pRun EXCEPT ![r].pc = "done", ![r].status = "success"]
       \/ /\ pRun' = [pRun EXCEPT ![r].pc = "innerCatch"]
          /\ UNCHANGED <<pBrowsers, pSlot>>
    /\ UNCHANGED pContexts

\* route.ts:491-497
PairInnerCatch(r) ==
    /\ pRun[r].pc = "innerCatch"
    /\ IF BrowserOf(r) # 0
       THEN /\ pBrowsers' = CloseBrowser(BrowserOf(r), r)
            /\ pSlot' = [pSlot EXCEPT ![BrowserSlot(r)] = 0]
       ELSE UNCHANGED <<pBrowsers, pSlot>>
    /\ pRun' = [pRun EXCEPT ![r].pc = "outerCatch"]
    /\ UNCHANGED pContexts

\* route.ts:498-516, the error response carries no cookies
PairOuterCatch(r) ==
    /\ pRun[r].pc = "outerCatch"
    /\ IF BrowserOf(r) # 0
       THEN pBrowsers' = CloseBrowser(BrowserOf(r), r)
       ELSE UNCHANGED pBrowsers
    /\ pRun' = [pRun EXCEPT ![r].pc = "done", ![r].status = "error", ![r].cookies = {}]
    /\ UNCHANGED <<pSlot, pContexts>>

PairInit ==
    /\ RunIdle
    /\ MergeIdle
    /\ HelpersIdle
    /\ DiscoveryIdle
    /\ OthersIdle

PairNext ==
    \/ \E r \in Runs : PairLaunch(r) /\ UNCHANGED <<runVars, mergeVars, helperVars, discoveryVars, turnstileVars, dashboardVars>>
    \/ \E r \in Runs : PairNewContext(r) /\ UNCHANGED <<runVars, mergeVars, helperVars, discoveryVars, turnstileVars, dashboardVars>>
    \/ \E r \in Runs : PairLogin(r) /\ UNCHANGED <<runVars, mergeVars, helperVars, discoveryVars, turnstileVars, dashboardVars>>
    \/ \E r \in Runs : PairExtract(r) /\ UNCHANGED <<runVars, mergeVars, helperVars, discoveryVars, turnstileVars, dashboardVars>>
    \/ \E r \in Runs : PairClose(r) /\ UNCHANGED <<runVars, mergeVars, helperVars, discoveryVars, turnstileVars, dashboardVars>>
    \/ \E r \in Runs : PairInnerCatch(r) /\ UNCHANGED <<runVars, mergeVars, helperVars, discoveryVars, turnstileVars, dashboardVars>>
    \/ \E r \in Runs : PairOuterCatch(r) /\ UNCHANGED <<runVars, mergeVars, helperVars, discoveryVars, turnstileVars, dashboardVars>>

SpecPair == PairInit /\ [][PairNext]_vars

(***************************************************************************)
(* solveTurnstileChallenge (part_002:7-99): one call, every await of it    *)
(* resolving or rejecting                                                  *)
(***************************************************************************)
\* part_002:70-75
turnstileSelectors ==
    <<"iframe[src*='challenges.cloudflare.com']", "#turnstile-wrapper", ".cf-turnstile",
      "#challenge-stage">>

\* `return { success, message, method }`, method "none" where the literal has none
TurnstileReturn(success, message, method) ==
    /\ tResult' = [returned |-> TRUE, success |-> success, message |-> message,
                   method |-> method]
    /\ tPc' = "done"

\* part_002:16-28 and the catch of 92-98 for a rejected evaluate
TurnstileDetect ==
    /\ tPc = "detect"
    /\ \/ /\ tEvents' = Append(tEvents, "evaluate:reject")
          /\ TurnstileReturn(FALSE, "Error solving Turnstile", "none")
       \/ /\ tEvents' = Append(tEvents, "evaluate:false")
          /\ TurnstileReturn(TRUE, "No Cloudflare Turnstile detected", "none")
       \/ /\ tEvents' = Append(tEvents, "evaluate:true")
          /\ tPc' = "frames"
          /\ UNCHANGED tResult
    /\ UNCHANGED tSelector

\* part_002:33-36, page.frames() holds a frame of the challenge or none
TurnstileFrames ==
    /\ tPc = "frames"
    /\ \/ /\ tEvents' = Append(tEvents, "frame:found")
          /\ tPc' = "frameStrategy"
       \/ /\ tEvents' = Append(tEvents, "frame:none")
          /\ tPc' = "selectors"
    /\ UNCHANGED <<tSelector, tResult>>

\* the ways strategy 1 ends before its click: a call rejected (caught at 64-66)
\* or a query answered null
FrameStrategyStops ==
    {"frame.$:reject", "frame.$:null", "frameBox:reject", "frameBox:null",
     "frameMove:reject", "framePause:reject", "frameClick:reject"}

\* part_002:39-66: query, bounding box, mouse move, pause, click, wait, return;
\* every await is inside the try of line 39, the wait after the click included
TurnstileFrameStrategy ==
    /\ tPc = "frameStrategy"
    /\ \/ \E stop \in FrameStrategyStops :
             /\ tEvents' = Append(tEvents, stop)
             /\ tPc' = "selectors"
             /\ UNCHANGED tResult
       \/ /\ tEvents' = tEvents \o <<"click:frame", "frameWait:reject">>
          /\ tPc' = "selectors"
          /\ UNCHANGED tResult
       \/ /\ tEvents' = tEvents \o <<"click:frame", "frameWait">>
          /\ TurnstileReturn(TRUE, "Clicked Turnstile checkbox successfully", "coordinate-click")
    /\ UNCHANGED tSelector

\* the ways one iteration of strategy 2 ends before its click
SelectorStops ==
    {"page.$:reject", "page.$:null", "isVisible:reject", "isVisible:false",
     "selectorBox:reject", "selectorBox:null", "selectorClick:reject"}

\* part_002:77-89, one iteration of the loop: the catch of line 88 is empty, so
\* whatever rejects, the wait after the click included, the next selector is tried
TurnstileSelector ==
    /\ tPc = "selectors"
    /\ tSelector <= Len(turnstileSelectors)
    /\ \/ \E stop \in SelectorStops :
             /\ tEvents' = Append(tEvents, stop)
             /\ tSelector' = tSelector + 1
             /\ UNCHANGED <<tPc, tResult>>
       \/ /\ tEvents' = tEvents \o <<"click:selector", "selectorWait:reject">>
          /\ tSelector' = tSelector + 1
          /\ UNCHANGED <<tPc, tResult>>
       \/ /\ tEvents' = tEvents \o <<"click:selector", "selectorWait">>
          /\ TurnstileReturn(TRUE, "Clicked Turnstile via selector", "selector-click")
          /\ UNCHANGED tSelector

\* part_002:91
TurnstileUnsolved ==
    /\ tPc = "selectors"
    /\ tSelector > Len(turnstileSelectors)
    /\ TurnstileReturn(FALSE, "Detected Cloudflare but could not solve automatically", "none")
    /\ UNCHANGED <<tSelector, tEvents>>

TurnstileInit ==
    /\ RunIdle
    /\ MergeIdle
    /\ HelpersIdle
    /\ DiscoveryIdle
    /\ OthersIdle

TurnstileNext ==
    \/ TurnstileDetect /\ UNCHANGED <<runVars, mergeVars, helperVars, discoveryVars, pairVars, dashboardVars>>
    \/ TurnstileFrames /\ UNCHANGED <<runVars, mergeVars, helperVars, discoveryVars, pairVars, dashboardVars>>
    \/ TurnstileFrameStrategy /\ UNCHANGED <<runVars, mergeVars, helperVars, discoveryVars, pairVars, dashboardVars>>
    \/ TurnstileSelector /\ UNCHANGED <<runVars, mergeVars, helperVars, discoveryVars, pairVars, dashboardVars>>
    \/ TurnstileUnsolved /\ UNCHANGED <<runVars, mergeVars, helperVars, discoveryVars, pairVars, dashboardVars>>

SpecTurnstile == TurnstileInit /\ [][TurnstileNext]_vars

(***************************************************************************)
(* The dashboard's copied indicator (part_000:42, 71-75): copyCookie calls *)
(* and the timers they start, time counted in ticks of half a second       *)
(***************************************************************************)
\* setTimeout(..., 2000), in ticks
TimerTicks == 4

\* the rows of the cookie table that are clicked in the model
MaxIndex == 2

\* the largest number of timers pending at once in the model
MaxTimers == 3

\* part_000:71-75: the index is shown as copied and a timer is started; the
\* timer's handle is dropped, no earlier timer is cleared
copyCookie(index) ==
    /\ Len(timers) < MaxTimers
    /\ copiedIndex' = index
    /\ timers' = Append(timers, TimerTicks)
    /\ lastCopy' = [index |-> index, age |-> 0]

\* part_000:74, the callback of a timer that is due: setCopiedIndex(null)
TimerFires ==
    /\ Len(timers) > 0
    /\ Head(timers) = 0
    /\ copiedIndex' = 0
    /\ timers' = Tail(timers)
    /\ UNCHANGED lastCopy

\* one tick passes; the timers that are due have fired before it does
Tick ==
    /\ Len(timers) > 0
    /\ \A i \in 1..Len(timers) : timers[i] > 0
    /\ timers' = [i \in 1..Len(timers) |-> timers[i] - 1]
    /\ lastCopy' = [lastCopy EXCEPT !.age = IF @ < TimerTicks THEN @ + 1 ELSE @]
    /\ UNCHANGED copiedIndex

DashboardInit ==
    /\ RunIdle
    /\ MergeIdle
    /\ HelpersIdle
    /\ DiscoveryIdle
    /\ OthersIdle

DashboardNext ==
    \/ \E index \in 1..MaxIndex : copyCookie(index) /\ UNCHANGED <<runVars, mergeVars, helperVars, discoveryVars, pairVars, turnstileVars>>
    \/ TimerFires /\ UNCHANGED <<runVars, mergeVars, helperVars, discoveryVars, pairVars, turnstileVars>>
    \/ Tick /\ UNCHANGED <<runVars, mergeVars, helperVars, discoveryVars, pairVars, turnstileVars>>

SpecDashboard == DashboardInit /\ [][DashboardNext]_vars

(***************************************************************************)
(* Properties                                                              *)
(***************************************************************************)
Returned == pc = "done"

Launched == Count(events, "launch") >= 1

CloseCalls == Count(events, "close")

IsPost(e) == e \in {"post:2xx", "post:non2xx", "post:throw", "post:pending"}

IsFailedPost(e) == e \in {"post:non2xx", "post:throw"}

Posts == SelectSeq(events, IsPost)

IsExtract(e) == e \in {"extractAllCookies", "extractViaJavaScript"}

\* C1: once chromium.launch has succeeded, browser.close() has been invoked by the
\* time the response is returned, whatever path the run took.
C1_ClosedOnEveryExit ==
    (Returned /\ Launched) => CloseCalls >= 1

\* a run that failed after launch and outside the inner try has returned
C1_Witness ==
    Returned /\ Launched /\ error = "newContext failed" /\ CloseCalls >= 1

\* C2: three failed page.goto(loginUrl) calls end the run with the 500 error about
\* the login page and exactly one browser.close().
C2_NavigationFailure ==
    (Returned /\ Count(events, "goto:fail") = 3) =>
        /\ response = ErrorResponse(500, "Failed to load login page after 3 attempts")
        /\ CloseCalls = 1

C2_Witness ==
    Returned /\ Count(events, "goto:fail") = 3 /\ response.status = "error"

\* the request is one the validation must reject: a field missing or empty, or a
\* webhook URL with neither marker
BadRequest ==
    \/ \E f \in {"targetUrl", "loginUrl", "username", "password", "webhookUrl"} :
          ~body[f].defined \/ Len(body[f].text) = 0
    \/ /\ body.webhookUrl.isString
       /\ ~Includes(body.webhookUrl.text, <<"/", "w", "e", "b", "h", "o", "o", "k", "/">>)
       /\ ~Includes(body.webhookUrl.text,
                    <<"/", "w", "e", "b", "h", "o", "o", "k", "-", "t", "e", "s", "t", "/">>)

BodyParsed == pc # "parse" /\ error # "Unexpected token in JSON"

\* C3: a parsed request with a missing or empty field, or a webhook URL string
\* without '/webhook/' and '/webhook-test/', is answered 400 'error'; the browser is never
\* launched, nothing is navigated and nothing is posted.
C3_ValidationBeforeBrowser ==
    (BodyParsed /\ BadRequest) =>
        /\ events = <<>>
        /\ browser = "null"
        /\ pc \in {"validate", "done"}
        /\ Returned => (response.status = "error" /\ response.http = 400)

\* a request whose only fault is a webhook URL without a marker has been rejected
C3_Witness ==
    /\ Returned
    /\ BodyParsed
    /\ \A f \in {"targetUrl", "loginUrl", "username", "password", "webhookUrl"} :
          body[f].defined /\ Len(body[f].text) > 0
    /\ BadRequest
    /\ response.http = 400

FatalDriverError ==
    \/ Count(events, "goto:fail") = 3
    \/ error \in {"Failed to load login page after 3 attempts",
                  "Could not find username/email input field",
                  "Could not find password input field",
                  "Could not find submit button"}

\* C4: after a navigation failure or a field/control not found, neither cookie
\* strategy is called, nothing is posted to the webhook, and the browser has been
\* closed when the error response is returned.
C4_NoHarvestAfterFatalError ==
    FatalDriverError =>
        /\ \A i \in 1..Len(events) : ~IsExtract(events[i]) /\ ~IsPost(events[i])
        /\ Returned => (response.status = "error" /\ CloseCalls >= 1)

C4_Witness ==
    Returned /\ error = "Could not find submit button" /\ CloseCalls >= 1

\* C5: the delivery loop posts at most 3 times, never after a 2xx answer, and leaves
\* webhookSuccess true iff some attempt was answered 2xx; a first 2xx on attempt k
\* means exactly k attempts, and without a 2xx the loop ends after exactly 3.
C5_BoundedDelivery ==
    /\ Len(Posts) <= 3
    /\ \A i \in 1..Len(Posts) : Posts[i] = "post:2xx" => i = Len(Posts)
    /\ webhookSuccess <=> (\E i \in 1..Len(Posts) : Posts[i] = "post:2xx")
    /\ (pc \in {"closeSuccess", "respondSuccess"} /\ ~webhookSuccess) => Len(Posts) = 3
    /\ (Returned /\ response.status = "success") => response.webhookSent = webhookSuccess

\* 500, 500, 200: sent after exactly three attempts
C5_Witness ==
    /\ Returned
    /\ Posts = <<"post:non2xx", "post:non2xx", "post:2xx">>
    /\ response.status = "success"
    /\ response.webhookSent

\* C6: with at least one cookie extracted and all 3 delivery attempts failed, the
\* run returns 'success' with webhookSent = false and the last attempt's error.
C6_DeliveryFailureKeepsSuccess ==
    (/\ Returned
     /\ Len(Posts) = 3
     /\ \A i \in 1..3 : IsFailedPost(Posts[i])) =>
        /\ response.status = "success"
        /\ response.webhookSent = FALSE
        /\ response.webhookError.attempt = 3
        /\ response.webhookError.kind =
              (IF Posts[3] = "post:non2xx" THEN "HTTP" ELSE "transport")

\* C7: every failed delivery attempt but the third is followed by the fixed delay
\* before the next attempt, and the third is followed by none.
C7_DelayBetweenAttempts ==
    /\ \A i \in 1..(Len(events) - 1) :
          (IsFailedPost(events[i]) /\ IsPost(events[i + 1])) => FALSE
    /\ \A i \in 1..Len(events) :
          (events[i] = "webhookDelay") =>
              Len(SelectSeq(SubSeq(events, 1, i), IsPost)) < 3

\* C8: the sequence POST selects is the context result when c >= j and the
\* injected-script result when j > c.
C8_MergePolicy ==
    mPost.applied =>
        /\ mc >= mj => mPost.cookies = ContextResult(mc)
        /\ mj > mc => mPost.cookies = JsResult(mj)

\* counts (0, 5): the injected-script result is selected
C8_Witness ==
    mPost.applied /\ mc = 0 /\ mj = 5 /\ mPost.cookies = JsResult(5)

ReportedMethods ==
    { mPost.response.extraction.extractionMethod,
      mPost.response.extractionMethods.used,
      mPost.payload.extraction.extractionMethod,
      mPost.payload.extractionMethods.methodUsed }

\* C9 as stated: the method reported in the response and in the payload is
\* 'context' exactly when the context result was selected, 'injected-script'
\* exactly when the injected-script result was, and nothing else.
C9_MethodNamesAsStated ==
    mPost.applied =>
        \A m \in ReportedMethods :
            /\ m \in {"context", "injected-script"}
            /\ m = "context" => mPost.cookies = ContextResult(mc)
            /\ m = "injected-script" => mPost.cookies = JsResult(mj)
            /\ mPost.cookies # JsResult(mj) => m = "context"
            /\ mPost.cookies # ContextResult(mc) => m = "injected-script"

\* C9 amended: the method reported in the response and in the payload is 'context'
\* exactly when the context result was selected, 'javascript' exactly when the
\* injected-script result was, and nothing else.
C9_MethodNames ==
    mPost.applied =>
        \A m \in ReportedMethods :
            /\ m \in {"context", "javascript"}
            /\ m = "context" => mPost.cookies = ContextResult(mc)
            /\ m = "javascript" => mPost.cookies = JsResult(mj)
            /\ mPost.cookies # JsResult(mj) => m = "context"
            /\ mPost.cookies # ContextResult(mc) => m = "javascript"

C9_Witness ==
    /\ mPost.applied
    /\ mj > mc
    /\ ReportedMethods = {"javascript"}

\* C10: performCompleteExtraction returns the cookies of the strategy with the
\* larger count, ties going to context.
C10_PceMergePolicy ==
    mPce.applied =>
        /\ mc >= mj => mPce.cookies = ContextResult(mc)
        /\ mj > mc => mPce.cookies = JsResult(mj)


BothExtractorsCalled ==
    Count(events, "extractAllCookies") = 1 /\ Count(events, "extractViaJavaScript") = 1

\* C11: when both strategies return no cookie the run answers the error "No cookies
\* extracted from any method", posts nothing and has closed the browser; a webhook
\* post is made only with a non-empty selected sequence.
C11_EmptyExtractionIsFatal ==
    /\ (/\ BothExtractorsCalled
        /\ pc # "merge"
        /\ Len(contextCookies) = 0
        /\ Len(jsCookies) = 0) =>
           /\ Len(Posts) = 0
           /\ error = "No cookies extracted from any method"
           /\ Returned => /\ response = ErrorResponse(500, "No cookies extracted from any method")
                          /\ CloseCalls >= 1
    /\ Len(Posts) > 0 => (Len(allCookies) > 0 /\ webhookPayload.cookies = allCookies)

C11_Witness ==
    /\ Returned
    /\ BothExtractorsCalled
    /\ Len(contextCookies) = 0
    /\ Len(jsCookies) = 0
    /\ response.message = "No cookies extracted from any method"
    /\ CloseCalls = 1


\* the text before the first "=" of a piece (the whole piece when it has none)
BeforeFirstEq(piece) ==
    IF IndexOf(piece, <<"=">>) = 0 THEN piece
    ELSE SubSeq(piece, 1, IndexOf(piece, <<"=">>) - 1)

\* the text after the first "=" of a piece (empty when it has none)
AfterFirstEq(piece) ==
    IF IndexOf(piece, <<"=">>) = 0 THEN <<>>
    ELSE SubSeq(piece, IndexOf(piece, <<"=">>) + 1, Len(piece))

NonBlankSegments(doc) == SelectSeq(Split(doc, <<";">>), IsNonBlank)

\* C12: with n >= 1 non-blank segments in document.cookie, extractViaJavaScript
\* returns n cookies in segment order, each split at its first "=", with the
\* hostname as domain and "/" as path.
C12_ParsesDocumentCookie ==
    pout.phase = "js" =>
        LET segments == NonBlankSegments(DocumentCookie(pin))
        IN Len(segments) >= 1 =>
             /\ Len(pout.js) = Len(segments)
             /\ \A i \in 1..Len(pout.js) :
                   /\ pout.js[i].name = Trim(BeforeFirstEq(Trim(segments[i])))
                   /\ pout.js[i].value = Trim(AfterFirstEq(Trim(segments[i])))
                   /\ pout.js[i].domain = WindowHostname
                   /\ pout.js[i].path = <<"/">>

\* the four criteria of the classification, as the design states them
SatisfiesCriterion(cookie) ==
    \/ \E p \in 1..Len(CRITICAL_PATTERNS) :
          Includes(ToLower(cookie.name), ToLower(CRITICAL_PATTERNS[p]))
    \/ Len(cookie.value) > 80
    \/ (Len(cookie.value) >= 3 /\ SubSeq(cookie.value, 1, 3) = <<"e", "y", "J">>)
    \/ /\ Len(cookie.value) > 50
       /\ \A i \in 1..Len(cookie.value) :
             \/ cookie.value[i] \in Range(UpperChars) \cup Range(LowerChars) \cup DigitChars
             \/ cookie.value[i] \in {"+", "/", "=", "_", "-"}

NoDuplicates(s) == \A i, j \in 1..Len(s) : s[i] = s[j] => i = j

\* C13: a name is in identifyCriticalCookies' result iff some cookie of that name
\* meets one of the four criteria, and each such name is there once.
C13_CriticalIffCriterion ==
    pout.phase = "critical" =>
        /\ \A i \in 1..Len(pin) :
              SatisfiesCriterion(pin[i]) => pin[i].name \in Range(pout.critical)
        /\ \A n \in Range(pout.critical) :
              \E i \in 1..Len(pin) : pin[i].name = n /\ SatisfiesCriterion(pin[i])
        /\ NoDuplicates(pout.critical)

\* "theme" twice, critical the second time by its length alone, and a pattern name
C13_Witness ==
    /\ pout.phase = "critical"
    /\ pin = <<CookiePool[2], CookiePool[12], CookiePool[1], CookiePool[12]>>
           \/ pin = <<CookiePool[2], CookiePool[12], CookiePool[1]>>
    /\ Len(pout.critical) = 2
    /\ pout.critical[1] = <<"t", "h", "e", "m", "e">>

Front(s) == SubSeq(s, 1, Len(s) - 1)

IsToken(c, t) == t.name = c.name /\ t.value = c.value

\* C15: extractSessionTokens returns one entry per cookie whose value is longer than
\* 100 and none for another cookie, each with length = its value's length, in
\* non-increasing order of length.
C15_SessionTokens ==
    pout.phase = "tokens" =>
        /\ \A i \in 1..Len(pin) :
              Cardinality({k \in 1..Len(pout.tokens) : IsToken(pin[i], pout.tokens[k])})
              = (IF Len(pin[i].value) > 100
                   THEN Cardinality({j \in 1..Len(pin) : IsToken(pin[j], pin[i])})
                   ELSE 0)
        /\ \A k \in 1..Len(pout.tokens) :
              /\ pout.tokens[k].length = Len(pout.tokens[k].value)
              /\ \E i \in 1..Len(pin) : IsToken(pin[i], pout.tokens[k])
        /\ \A k \in 1..(Len(pout.tokens) - 1) :
              pout.tokens[k].length >= pout.tokens[k + 1].length

\* values of 101, 100 and 120 characters: two tokens, the longer first
C15_Witness ==
    /\ pout.phase = "tokens"
    /\ pin = <<CookiePool[5], CookiePool[9], CookiePool[1]>>
    /\ Len(pout.tokens) = 2
    /\ pout.tokens[1].length = 120
    /\ pout.tokens[2].length = 101

\* C16: every session token's name is a critical name of the same sequence; a
\* LEETCODE_SESSION cookie with a 120-character value is in both.
C16_TokensAreCritical ==
    pout.phase = "tokens" =>
        /\ \A k \in 1..Len(pout.tokens) : pout.tokens[k].name \in Range(pout.critical)
        /\ \A i \in 1..Len(pin) :
              pin[i] = CookiePool[1] =>
                  /\ pin[i].name \in Range(pout.critical)
                  /\ \E k \in 1..Len(pout.tokens) : IsToken(pin[i], pout.tokens[k])

C16_Witness ==
    /\ pout.phase = "tokens"
    /\ \E i \in 1..Len(pin) : pin[i] = CookiePool[1] /\ Len(pin[i].value) = 120
    /\ \E i \in 1..Len(pin) : pin[i] = CookiePool[5]
    /\ Len(pout.tokens) = 2

\* the (name, value) pairs read back from a Cookie header string
ReadBack(cookieString) ==
    LET pieces == Split(cookieString, <<";", " ">>)
    IN [i \in 1..Len(pieces) |->
          [name |-> BeforeFirstEq(pieces[i]), value |-> AfterFirstEq(pieces[i])]]

PairsOf(cookies) ==
    [i \in 1..Len(cookies) |-> [name |-> cookies[i].name, value |-> cookies[i].value]]

SameMultiset(a, b) ==
    \A x \in Range(a) \cup Range(b) : Count(a, x) = Count(b, x)

\* C17 as stated: for every cookie sequence, the empty one and values with "=" or
\* ";" included, buildCookieString reads back to the sequence's (name, value) pairs.
C17_RoundTripAsStated ==
    pout.phase = "cookieString" =>
        SameMultiset(ReadBack(pout.cookieString), PairsOf(pin))

RoundTrips(cookies) ==
    /\ Len(cookies) >= 1
    /\ \A i \in 1..Len(cookies) :
          /\ ~Includes(cookies[i].name, <<"=">>)
          /\ ~Includes(cookies[i].name, <<";", " ">>)
          /\ ~Includes(cookies[i].value, <<";", " ">>)

\* C17 amended: for every non-empty cookie sequence in which no name contains "="
\* and no name or value contains "; ", buildCookieString reads back to the
\* sequence's (name, value) pairs.
C17_RoundTrip ==
    (pout.phase = "cookieString" /\ RoundTrips(pin)) =>
        SameMultiset(ReadBack(pout.cookieString), PairsOf(pin))

\* a value with "=" and a lone ";" next to another cookie
C17_Witness ==
    /\ pout.phase = "cookieString"
    /\ RoundTrips(pin)
    /\ Len(pin) = 2
    /\ pin[1] = CookiePool[11]
    /\ pin[2] = CookiePool[2]
    /\ ReadBack(pout.cookieString) = PairsOf(pin)


RequiredFields == {"targetUrl", "loginUrl", "username", "password", "webhookUrl"}

\* a parsed request with a missing, empty or wrongly typed field, or a webhook URL
\* without a marker
MalformedFields ==
    \/ \E f \in RequiredFields : ~body[f].defined
    \/ \E f \in RequiredFields : ~body[f].isString
    \/ \E f \in RequiredFields : Len(body[f].text) = 0
    \/ /\ ~Includes(body.webhookUrl.text, <<"/", "w", "e", "b", "h", "o", "o", "k", "/">>)
       /\ ~Includes(body.webhookUrl.text,
                    <<"/", "w", "e", "b", "h", "o", "o", "k", "-", "t", "e", "s", "t", "/">>)

\* C18: every run of a parsed request ends in a response with status 'success' or
\* 'error'; the response is HTTP 400 exactly when the request has a missing or
\* malformed field, and every other failure is HTTP 500 with status 'error'.
C18_FaultsAreClassified ==
    (Returned /\ BodyParsed) =>
        /\ response.status \in {"success", "error"}
        /\ response.http = 400 <=> MalformedFields
        /\ (~MalformedFields /\ response.status = "error") => response.http = 500


\* C19: an 'error' response has no cookies, cookieString or webhookSent member; a
\* 'success' response has a non-empty cookies sequence, cookieString, critical
\* names, session-token summaries and webhookSent, and has webhookError exactly
\* when webhookSent is false.
C19_OutcomeShapes ==
    Returned =>
        /\ response.status = "error" =>
              DOMAIN response \cap {"cookies", "cookieString", "webhookSent", "webhookError"} = {}
        /\ response.status = "success" =>
              /\ {"cookies", "cookieString", "criticalCookieNames", "sessionTokens",
                  "webhookSent"} \subseteq DOMAIN response
              /\ Len(response.cookies) >= 1
              /\ "webhookError" \in DOMAIN response <=> response.webhookSent = FALSE

\* a success whose delivery failed three times, with a session token in the harvest
C19_Witness ==
    /\ Returned
    /\ response.status = "success"
    /\ response.webhookSent = FALSE
    /\ "webhookError" \in DOMAIN response
    /\ Len(response.sessionTokens) >= 1
    /\ Len(response.criticalCookieNames) >= 1


ChallengeShown == Count(events, "page:challenge") >= 1

\* C20: a run whose login page showed an anti-automation challenge ends in a
\* response that carries the securityChallenges data, on success and on error.
C20_ChallengeIsReported ==
    (Returned /\ ChallengeShown) => "securityChallenges" \in DOMAIN response


\* the result of the strategy the merge of route.ts:365 selects
WinningResult == IF Len(contextCookies) >= Len(jsCookies) THEN contextCookies ELSE jsCookies

\* C25: in a successful run the cookies of the webhook payload and the cookies of
\* the response are the selected extraction result, cookie for cookie in the same
\* order, with every value as the winning strategy returned it.
C25_CookiesPassedUnchanged ==
    (Returned /\ response.status = "success") =>
        /\ allCookies = WinningResult
        /\ webhookPayload.built
        /\ Len(webhookPayload.cookies) = Len(WinningResult)
        /\ Len(response.cookies) = Len(WinningResult)
        /\ \A i \in 1..Len(WinningResult) :
              /\ webhookPayload.cookies[i] = WinningResult[i]
              /\ response.cookies[i] = WinningResult[i]
              /\ Len(response.cookies[i].value) = Len(JarValue(i))

\* a success whose harvest holds a 101-character value, delivered on the first post
C25_Witness ==
    /\ Returned
    /\ response.status = "success"
    /\ Len(response.cookies) >= 3
    /\ Len(response.cookies[3].value) = 101
    /\ webhookPayload.cookies[3].value = response.cookies[3].value
    /\ Posts = <<"post:2xx">>


IsGoto(e) == e \in {"goto:ok", "goto:fail"}

Gotos == SelectSeq(events, IsGoto)

NavigationFailed == error = "Failed to load login page after 3 attempts"

\* C26: page.goto(loginUrl) is called at most 3 times and never after a call that
\* succeeded; a 2 s pause follows a failed first or second call and not a failed
\* third; navigation failure is declared iff all 3 calls failed, and a timed-out
\* network-idle wait leaves the attempt a success.
C26_NavigationLoop ==
    /\ Len(Gotos) <= 3
    /\ \A i \in 1..Len(Gotos) : Gotos[i] = "goto:ok" => i = Len(Gotos)
    /\ Count(events, "navDelay") =
          (IF Count(events, "goto:fail") < 3 THEN Count(events, "goto:fail") ELSE 2)
    /\ \A i \in 1..Len(events) :
          events[i] = "navDelay" => (i > 1 /\ events[i - 1] = "goto:fail")
    /\ NavigationFailed => (Count(events, "goto:fail") = 3 /\ Count(events, "goto:ok") = 0)
    /\ (Count(events, "goto:fail") = 3 /\ pc \notin {"navigate", "navCheck"}) => NavigationFailed
    /\ Count(events, "networkidle:timeout") >= 1 => (navigationSuccess /\ ~NavigationFailed)

\* two failed calls, each followed by a pause, then a call that succeeds although
\* its network-idle wait times out
C26_Witness ==
    /\ Len(events) >= 8
    /\ SubSeq(events, 4, 8) = <<"goto:fail", "navDelay", "goto:fail", "navDelay", "goto:ok">>
    /\ Count(events, "networkidle:timeout") = 1
    /\ Returned
    /\ response.status = "success"


FieldNotFound ==
    error \in {"Could not find username/email input field",
               "Could not find password input field",
               "Could not find submit button"}

\* C28: when discovery of the username field, the password field or the submit
\* control ends not-found, the page title, URL and input elements have been
\* captured before the run fails.
C28_DiagnosticsBeforeFailure ==
    FieldNotFound => Count(events, "diagnostics") >= 1


\* the place of a driver event in the order login page loaded (1), username typed
\* (2), password typed (3), submit attempted (4), cookies read (5), webhook POST
\* (6); 0 for every other call
Stage(e) ==
    IF e = "goto:ok" THEN 1
    ELSE IF e = "typeUsername" THEN 2
    ELSE IF e = "typePassword" THEN 3
    ELSE IF e \in {"click:ok", "click:fail", "pressEnter", "pressEnter:fail"} THEN 4
    ELSE IF IsExtract(e) THEN 5
    ELSE IF IsPost(e) THEN 6
    ELSE 0

IsDriverEvent(e) == Stage(e) > 0

\* the stages of the driver events of the run, in the order they occurred: the
\* order is kept and no predecessor is missing iff this sequence starts at 1 and
\* each entry is its predecessor or the one after it
StagesReached ==
    LET driverEvents == SelectSeq(events, IsDriverEvent)
    IN [i \in 1..Len(driverEvents) |-> Stage(driverEvents[i])]

\* C29: the driver's events occur in the order page loaded, username typed,
\* password typed, submit attempted, cookies read, webhook POST, none without all
\* its predecessors, and each credential is typed at most once.
C29_DriverOrder ==
    /\ LET stages == StagesReached
       IN /\ Len(stages) >= 1 => stages[1] = 1
          /\ \A i \in 1..(Len(stages) - 1) :
                stages[i] <= stages[i + 1] /\ stages[i + 1] <= stages[i] + 1
    /\ Count(events, "typeUsername") <= 1
    /\ Count(events, "typePassword") <= 1

\* a run through all six stages, with the Enter fallback after a failed click
C29_Witness ==
    /\ Returned
    /\ \A k \in 1..6 : \E i \in 1..Len(events) : Stage(events[i]) = k
    /\ Count(events, "pressEnter") = 1
    /\ Len(Posts) = 2


EnterPressed == Count(events, "pressEnter") + Count(events, "pressEnter:fail")

Extracted == \E i \in 1..Len(events) : IsExtract(events[i])

\* Enter is pressed on the password field exactly when the click failed
EnterIffClickFailed ==
    /\ EnterPressed = Count(events, "click:fail")
    /\ Count(events, "click:ok") >= 1 => EnterPressed = 0

FirstVisible(selectors, visible) ==
    CHOOSE i \in 1..Len(selectors) :
        /\ selectors[i] \in visible
        /\ \A j \in 1..(i - 1) : selectors[j] \notin visible

\* C27: for each role the selectors are probed in list order; the element of the
\* lowest-index selector with a visible match is returned and no selector after it
\* is probed; not-found is reported iff no selector of the list has a visible match.
C27_FirstVisibleMatch ==
    dResult.applied =>
        LET selectors == SelectorsOf(dRole)
        IN /\ dResult.field.found <=> dVisible # {}
           /\ dVisible = {} => dResult.probes = selectors
           /\ dVisible # {} =>
                 /\ dResult.field.selector = selectors[FirstVisible(selectors, dVisible)]
                 /\ dResult.probes = SubSeq(selectors, 1, FirstVisible(selectors, dVisible))

\* the username list with matches for a generic selector and for the structural
\* fallback: the generic one is returned after five probes
C27_Witness ==
    /\ dResult.applied
    /\ dRole = "username"
    /\ dVisible = {"input[name=email]", "form input[type=text]:visible"}
    /\ dResult.field.selector = "input[name=email]"
    /\ Len(dResult.probes) = 5


\* C23: no log line of the run holds the value of a harvested cookie.
C23_NoCookieValueLogged ==
    Returned =>
        \A text \in LoggedTexts :
            \A i \in 1..Len(allCookies) : ~Includes(text, allCookies[i].value)


\* C21: every run eventually returns a response.
C21_EveryRunCompletes == <>Returned


\* C22: of two runs in flight at once, each works in a context of the browser it
\* launched, holds only the cookies of its own login, and no browser is closed
\* by a run other than the one that launched it.
C22_RunsIsolated ==
    /\ \A r \in Runs :
          /\ pRun[r].context # 0 =>
                pBrowsers[pContexts[pRun[r].context].browser].launchedBy = r
          /\ pRun[r].cookies \subseteq {r}
          /\ BrowserOf(r) # 0 => pBrowsers[BrowserOf(r)].launchedBy = r
    /\ \A b \in 1..Len(pBrowsers) : pBrowsers[b].closedBy \subseteq {pBrowsers[b].launchedBy}
    /\ \A c \in 1..Len(pContexts) :
          pContexts[c].jar \subseteq {pBrowsers[pContexts[c].browser].launchedBy}

\* the runs overlap (run 1 launched first, run 2 made its context first); run 1
\* has answered and closed its browser while run 2 still holds its own cookies
\* in a browser that is open
C22_Witness ==
    /\ pRun[2].context = 1
    /\ pRun[1].context = 2
    /\ pRun[1].status = "success"
    /\ pRun[1].cookies = {1}
    /\ pRun[2].pc = "close"
    /\ pRun[2].cookies = {2}
    /\ Len(pBrowsers) = 2
    /\ ~pBrowsers[1].open
    /\ pBrowsers[1].launchedBy = 1
    /\ IsOpen(BrowserOf(2))


\* the characters of an error message: the typed text inside the call log of a
\* rejected type(password), one token for a text fixed in the code
MessageText(msg) ==
    IF msg = TypeRejected
      THEN <<"t", "y", "p", "e", "(">> \o body.password.text \o <<")">>
      ELSE <<msg>>

HasPassword == body.password.defined /\ body.password.isString /\ Len(body.password.text) > 0

\* C24: the password of the request is in no field the webhook payload takes
\* from the request, and in no message of the HTTP response.
C24_PasswordNeverLeaves ==
    HasPassword =>
        /\ webhookPayload.built =>
              /\ "password" \notin DOMAIN webhookPayload
              /\ \A f \in {"targetUrl", "loginUrl", "username"} :
                    ~Includes(webhookPayload[f].text, body.password.text)
        /\ response.status = "error" =>
              ~Includes(MessageText(response.message), body.password.text)


IsScan(e) == e \in {"scan:none", "scan:failureWord"}

Scanned == \E i \in 1..Len(events) : IsScan(events[i])

\* C32: a run whose scan was made goes on to the extraction, whether the scan
\* found a failure word or not.
C32_ScanNeverChangesFlow ==
    (Returned /\ Scanned) => Extracted


IsGotoTarget(e) == e \in {"gotoTarget:ok", "gotoTarget:fail"}

GotoTargets == Len(SelectSeq(events, IsGotoTarget))

IsSubmission(e) == e \in {"click:ok", "pressEnter"}

\* C33: page.goto(targetUrl) is called at most once, only after the submission,
\* never when targetUrl equals loginUrl and once when it differs and the run got
\* that far; a failure of it is followed by the extraction.
C33_TargetNavigation ==
    /\ GotoTargets <= 1
    /\ body.targetUrl = body.loginUrl => GotoTargets = 0
    /\ Extracted => GotoTargets = (IF body.targetUrl # body.loginUrl THEN 1 ELSE 0)
    /\ \A i \in 1..Len(events) :
          IsGotoTarget(events[i]) => \E j \in 1..(i - 1) : IsSubmission(events[j])
    /\ (Returned /\ Count(events, "gotoTarget:fail") = 1) => Extracted

\* the navigation to a target that differs from the login URL failed and the run
\* still harvested and answered success
C33_Witness ==
    /\ Returned
    /\ body.targetUrl # body.loginUrl
    /\ Count(events, "gotoTarget:fail") = 1
    /\ response.status = "success"


\* the tokens of the waits that timed out (for the navigation to the target, of
\* the goto that failed)
TimeoutTokens ==
    {"networkidle:timeout", "load:timeout", "enabled:timeout", "navigation:timeout",
     "domcontentloaded:timeout", "gotoTarget:fail"}

\* the position the run is at after each step that holds a wait
AfterWait ==
    [p \in {"navigate", "settle", "waitEnabled", "submit", "postSubmit", "targetNav"} |->
        CASE p = "navigate" -> "navCheck"
          [] p = "settle" -> "findUsername"
          [] p = "waitEnabled" -> "submit"
          [] p = "submit" -> "postSubmit"
          [] p = "postSubmit" -> "targetNav"
          [] p = "targetNav" -> "extract"]

\* the positions of the driver, route.ts:105-335
DriverPositions ==
    {"navigate", "navCheck", "settle", "findUsername", "fillUsername", "findPassword",
     "fillPassword", "findSubmit", "waitEnabled", "submit", "postSubmit", "targetNav"}

\* a step during which some wait timed out leaves the run at the next step, with
\* no error in flight
TimeoutIsSoft ==
    (\E i \in (Len(events) + 1)..Len(events') : events'[i] \in TimeoutTokens) =>
        /\ pc \in DOMAIN AfterWait
        /\ pc' = AfterWait[pc]
        /\ navigationSuccess'
        /\ error' = "none"

StatedFatal ==
    {"Failed to load login page after 3 attempts",
     "Could not find username/email input field",
     "Could not find password input field",
     "Could not find submit button"}

\* the rejections of the actions made on what was found
ActionRejections ==
    {"username field action failed", "password field action failed", TypeRejected,
     "press Enter failed", "page query failed", "textContent failed"}

C36_ClosedAtMostOnce == CloseCalls <= 1

Delivered == \E i \in 1..Len(events) : events[i] = "post:2xx"

\* C37: a run in which some delivery attempt was answered 2xx answers 'success'
\* with webhookSent = true.
C37_DeliveredMeansSuccess ==
    (Returned /\ Delivered) =>
        /\ response.status = "success"
        /\ response.webhookSent

\* part_001:406-426, sendToWebhook against an endpoint whose answers, in order,
\* are `outcomes`: one fetch, response.ok, or false when fetch throws
sendToWebhook(outcomes) == outcomes[1] = "post:2xx"

\* C39: for the endpoint outcomes a run of POST met, sendToWebhook reports the
\* webhookSent value that the delivery loop of POST reported.
C39_SameWebhookSent ==
    (Returned /\ response.status = "success" /\ Len(Posts) >= 1) =>
        response.webhookSent = sendToWebhook(Posts)


\* what the cookie holds: a domain, a path, an expiry time (the jar reports -1 for
\* a cookie without one), the two flags set, a sameSite value
HasAttribute(c, mark) ==
    CASE mark = DomainMark -> "domain" \in DOMAIN c /\ c.domain # <<>>
      [] mark = PathMark -> "path" \in DOMAIN c /\ c.path # <<>>
      [] mark = ExpiresMark -> "expires" \in DOMAIN c /\ c.expires # -1
      [] mark = HttpOnlyMark -> "httpOnly" \in DOMAIN c /\ c.httpOnly
      [] mark = SecureMark -> "secure" \in DOMAIN c /\ c.secure
      [] mark = SameSiteMark -> "sameSite" \in DOMAIN c /\ c.sameSite # ""

AttributeMarks == <<DomainMark, PathMark, ExpiresMark, HttpOnlyMark, SecureMark, SameSiteMark>>

\* C35: one line per cookie in input order; the i-th line starts with name=value
\* of the i-th cookie and holds each of Domain, Path, Expires, HttpOnly, Secure,
\* SameSite exactly when the cookie has that attribute, in that order.
C35_SetCookieLines ==
    pout.phase = "setCookie" =>
        /\ Len(pout.headers) = Len(pin)
        /\ \A i \in 1..Len(pin) :
              LET h == pout.headers[i]
                  c == pin[i]
              IN /\ StartsWith(h, c.name \o <<"=">> \o c.value)
                 /\ \A k \in 1..Len(AttributeMarks) :
                       Includes(h, AttributeMarks[k]) <=> HasAttribute(c, AttributeMarks[k])
                 /\ \A k, l \in 1..Len(AttributeMarks) :
                       (k < l /\ Includes(h, AttributeMarks[k]) /\ Includes(h, AttributeMarks[l]))
                          => IndexOf(h, AttributeMarks[k]) < IndexOf(h, AttributeMarks[l])

\* the cookies of the input that extractAllCookies returned for a session cookie
IsJarSessionCookie(c) == c \in {ContextCookie(n) : n \in 1..MaxCookies}

\* C38: the line of a session cookie read by extractAllCookies (expires = -1)
\* holds no Expires attribute.
C38_NoExpiresForSessionCookie ==
    pout.phase = "setCookie" =>
        \A i \in 1..Len(pin) :
            IsJarSessionCookie(pin[i]) => ~Includes(pout.headers[i], ExpiresMark)


FrameClicked == \E i \in 1..Len(tEvents) : tEvents[i] = "click:frame"

SelectorClicked == \E i \in 1..Len(tEvents) : tEvents[i] = "click:selector"

\* some call of strategy 2 was made
SelectorStrategyTried ==
    \E i \in 1..Len(tEvents) : tEvents[i] \in SelectorStops \cup {"click:selector"}

ChallengeDetected == \E i \in 1..Len(tEvents) : tEvents[i] = "evaluate:true"

\* C34: solveTurnstileChallenge ends with a {success, message, method?} value
\* whatever rejects; strategy 2 is tried only if strategy 1 completed no click;
\* success is false when a challenge was detected and no click was completed.
C34_TurnstileBestEffort ==
    /\ tPc \in {"detect", "frames", "frameStrategy", "selectors", "done"}
    /\ tPc = "done" => (tResult.returned /\ tResult.success \in BOOLEAN)
    /\ SelectorStrategyTried => ~FrameClicked
    /\ (tPc = "done" /\ ChallengeDetected /\ ~FrameClicked /\ ~SelectorClicked) =>
          ~tResult.success


\* C40: for less than 2 seconds after the latest copyCookie call, the indicator
\* shows the index of that call.
C40_IndicatorLastsTwoSeconds ==
    (lastCopy.index # 0 /\ lastCopy.age < TimerTicks) => copiedIndex = lastCopy.index

====
